---- MODULE Spec2Model ----
(***************************************************************************)
(* Model of the Resend API client (src/src/client.rs), of the request and  *)
(* response types it writes and decodes (src/src/types.rs), of the         *)
(* configuration (src/src/config.rs), the formatters (src/src/formatters)  *)
(* and the commands (src/src/commands, src/src/main.rs).                   *)
(*                                                                         *)
(* Spec is one client performing operations; FnSpec applies the pure       *)
(* functions of the program to their inputs; CmdSpec is one process        *)
(* running one resource command, ConfigSpec one process running a config   *)
(* command, ProgramSpec one process running either.                        *)
(*                                                                         *)
(* Text is modelled as a sequence of tokens, so that a response body, an   *)
(* error detail and an error message are all sequences of the same kind    *)
(* and decoding a body is real parsing.                                    *)
(***************************************************************************)
EXTENDS Integers, Sequences, FiniteSets, TLC

VARIABLES client, pc, op, req, sent, elapsed, fault, resp, ret, result, ops, calls,
          fn, proc

\* client .. calls: one client and the operation in flight;
\* fn: a pure function of the program, its input and its value;
\* proc: the process running one command.
vars == <<client, pc, op, req, sent, elapsed, fault, resp, ret, result, ops, calls,
          fn, proc>>

----------------------------------------------------------------------------
(* Bounds *)

\* Number of public operations one client performs in a run.
MaxOps == 2

\* Seconds that pass in one step of the clock while a verb awaits.
TickSecs == 10

\* Longest API key handed to mask_key, in characters.
MaxKeyLen == 12

\* Longest list of resources handed to a formatter.
MaxItems == 2

----------------------------------------------------------------------------
(* Program constants *)

BASE_URL == "https://api.resend.com"
TIMEOUT_SECS == 30
CONNECT_TIMEOUT_SECS == 10

OK == 200
CREATED == 201
NO_CONTENT == 204
BAD_REQUEST == 400
UNAUTHORIZED == 401
FORBIDDEN == 403
NOT_FOUND == 404
UNPROCESSABLE_ENTITY == 422
TOO_MANY_REQUESTS == 429

----------------------------------------------------------------------------
(* Text: tokens *)

\* punctuation of JSON text
P(s) == [k |-> "p", s |-> s]
\* a quoted string literal of JSON text
S(s) == [k |-> "s", s |-> s]
\* a bare word: null, true, false, or text that is no JSON at all
W(s) == [k |-> "w", s |-> s]
\* a number literal of JSON text
N(s) == [k |-> "n", s |-> s]
\* a piece of text the program itself writes (format strings, fixed messages)
Lit(s) == [k |-> "lit", s |-> s]
\* a number the program formats into a message
Num(n) == [k |-> "num", n |-> n]

Range(s) == {s[i] : i \in 1..Len(s)}

----------------------------------------------------------------------------
(* JSON text -> JSON value (serde_json's reader, used by response.json) *)

JStr(s) == [j |-> "str", s |-> s]
JNum(s) == [j |-> "num", s |-> s]
JBool(b) == [j |-> "bool", b |-> b]
JNull == [j |-> "null"]
\* an object keeps its members in text order, duplicates included
JObj(m) == [j |-> "obj", m |-> m]
JArr(a) == [j |-> "arr", a |-> a]

Fail == [ok |-> FALSE]
Parsed(v, n) == [ok |-> TRUE, v |-> v, n |-> n]

RECURSIVE ParseValue(_, _), ParseMembers(_, _, _), ParseElements(_, _, _)

\* One JSON value starting at token i of t; n is the index after it.
ParseValue(t, i) ==
    IF i > Len(t) THEN Fail
    ELSE LET c == t[i] IN
         CASE c.k = "s" -> Parsed(JStr(c.s), i + 1)
           [] c.k = "n" -> Parsed(JNum(c.s), i + 1)
           [] c.k = "w" ->
                IF c.s = "null" THEN Parsed(JNull, i + 1)
                ELSE IF c.s \in {"true", "false"}
                     THEN Parsed(JBool(c.s = "true"), i + 1)
                     ELSE Fail
           [] c = P("{") ->
                IF i + 1 <= Len(t) /\ t[i + 1] = P("}")
                THEN Parsed(JObj(<<>>), i + 2)
                ELSE ParseMembers(t, i + 1, <<>>)
           [] c = P("[") ->
                IF i + 1 <= Len(t) /\ t[i + 1] = P("]")
                THEN Parsed(JArr(<<>>), i + 2)
                ELSE ParseElements(t, i + 1, <<>>)
           [] OTHER -> Fail

\* The members of an object from the key at token i on; acc are those read.
ParseMembers(t, i, acc) ==
    IF i + 1 > Len(t) THEN Fail
    ELSE IF t[i].k # "s" \/ t[i + 1] # P(":") THEN Fail
    ELSE LET r == ParseValue(t, i + 2) IN
         IF ~r.ok THEN Fail
         ELSE IF r.n > Len(t) THEN Fail
         ELSE LET acc2 == Append(acc, [key |-> t[i].s, val |-> r.v]) IN
              IF t[r.n] = P("}") THEN Parsed(JObj(acc2), r.n + 1)
              ELSE IF t[r.n] = P(",") THEN ParseMembers(t, r.n + 1, acc2)
              ELSE Fail

\* The elements of an array from the value at token i on.
ParseElements(t, i, acc) ==
    LET r == ParseValue(t, i) IN
    IF ~r.ok THEN Fail
    ELSE IF r.n > Len(t) THEN Fail
    ELSE LET acc2 == Append(acc, r.v) IN
         IF t[r.n] = P("]") THEN Parsed(JArr(acc2), r.n + 1)
         ELSE IF t[r.n] = P(",") THEN ParseElements(t, r.n + 1, acc2)
         ELSE Fail

\* A whole text is JSON when one value spans all of it (no trailing text).
ParseJson(t) ==
    LET r == ParseValue(t, 1) IN
    IF r.ok /\ r.n = Len(t) + 1 THEN [ok |-> TRUE, v |-> r.v] ELSE Fail

----------------------------------------------------------------------------
(* JSON value -> typed value (the derived Deserialize of types.rs) *)

TString == [c |-> "String"]
TI32 == [c |-> "i32"]
TOption(t) == [c |-> "Option", of |-> t]
TVec(t) == [c |-> "Vec", of |-> t]
TStruct(n) == [c |-> "struct", n |-> n]

None == [some |-> FALSE]
Some(x) == [some |-> TRUE, v |-> x]

\* a field: dflt is TRUE when it carries #[serde(default)]
Field(name, ty, dflt) == [name |-> name, ty |-> ty, dflt |-> dflt]

Fields(T) ==
    CASE T = "SendEmailResponse" ->
           << Field("id", TString, FALSE) >>
      [] T = "Email" ->
           << Field("id", TString, FALSE),
              Field("from", TOption(TString), TRUE),
              Field("to", TOption(TVec(TString)), TRUE),
              Field("subject", TOption(TString), TRUE),
              Field("created_at", TOption(TString), TRUE),
              Field("last_event", TOption(TString), TRUE) >>
      [] T = "EmailsResponse" ->
           << Field("data", TVec(TStruct("Email")), FALSE) >>
      [] T = "Domain" ->
           << Field("id", TString, FALSE),
              Field("name", TString, FALSE),
              Field("status", TOption(TString), TRUE),
              Field("region", TOption(TString), TRUE),
              Field("records", TOption(TVec(TStruct("DnsRecord"))), TRUE) >>
      [] T = "DnsRecord" ->
           << Field("record", TString, FALSE),
              Field("name", TString, FALSE),
              Field("type", TOption(TString), TRUE),
              Field("ttl", TOption(TString), TRUE),
              Field("value", TString, FALSE),
              Field("status", TOption(TString), TRUE),
              Field("priority", TOption(TI32), TRUE) >>
      [] T = "DomainsResponse" ->
           << Field("data", TVec(TStruct("Domain")), FALSE) >>
      [] T = "ApiKey" ->
           << Field("id", TString, FALSE),
              Field("name", TString, FALSE),
              Field("token", TOption(TString), TRUE),
              Field("created_at", TOption(TString), TRUE) >>
      [] T = "ApiKeysResponse" ->
           << Field("data", TVec(TStruct("ApiKey")), FALSE) >>
      [] T = "Template" ->
           << Field("id", TString, FALSE),
              Field("name", TString, FALSE),
              Field("subject", TOption(TString), TRUE),
              Field("created_at", TOption(TString), TRUE) >>
      [] T = "TemplatesResponse" ->
           << Field("data", TVec(TStruct("Template")), FALSE) >>

FieldNames(T) == {Fields(T)[i].name : i \in 1..Len(Fields(T))}

Decoded(v) == [ok |-> TRUE, v |-> v]

\* As MissingField, were a required field filled with its type's default
\* (#[serde(default)] on every field).
MissingFieldDefaulted(f) ==
    IF f.ty.c = "String" THEN Decoded("")
    ELSE IF f.ty.c = "Vec" THEN Decoded(<< >>)
    ELSE Decoded(None)

\* What a field absent from the input becomes: its default under
\* #[serde(default)], None for an Option, and otherwise an error.
MissingField(f) ==
    IF f.dflt \/ f.ty.c = "Option" THEN Decoded(None) ELSE Fail

RECURSIVE DecodeAs(_, _), DecodeStruct(_, _)

\* JSON value v read as type ty.
DecodeAs(ty, v) ==
    CASE ty.c = "String" -> IF v.j = "str" THEN Decoded(v.s) ELSE Fail
      [] ty.c = "i32" -> IF v.j = "num" THEN Decoded(v.s) ELSE Fail
      [] ty.c = "Option" ->
           IF v.j = "null" THEN Decoded(None)
           ELSE LET r == DecodeAs(ty.of, v) IN
                IF r.ok THEN Decoded(Some(r.v)) ELSE Fail
      [] ty.c = "Vec" ->
           IF v.j # "arr" THEN Fail
           ELSE LET rs == [i \in 1..Len(v.a) |-> DecodeAs(ty.of, v.a[i])] IN
                IF \A i \in 1..Len(v.a) : rs[i].ok
                THEN Decoded([i \in 1..Len(v.a) |-> rs[i].v])
                ELSE Fail
      [] ty.c = "struct" -> DecodeStruct(ty.n, v)

\* JSON value v read as struct T: an object is read by field name (unknown
\* keys skipped, a repeated field refused), an array by field position.
DecodeStruct(T, v) ==
    LET fs == Fields(T) IN
    IF v.j = "obj" THEN
        LET m == v.m
            at(name) == {i \in 1..Len(m) : m[i].key = name}
            dup == \E f \in 1..Len(fs) : Cardinality(at(fs[f].name)) > 1
            one(f) == IF at(f.name) = {}
                      THEN MissingField(f)
                      ELSE DecodeAs(f.ty, m[CHOOSE i \in at(f.name) : TRUE].val)
            rs == [f \in 1..Len(fs) |-> one(fs[f])]
        IN IF ~dup /\ \A f \in 1..Len(fs) : rs[f].ok
           THEN Decoded([n \in FieldNames(T) |->
                           rs[CHOOSE f \in 1..Len(fs) : fs[f].name = n].v])
           ELSE Fail
    ELSE IF v.j = "arr" THEN
        LET a == v.a
            one(f) == IF f <= Len(a)
                      THEN DecodeAs(fs[f].ty, a[f])
                      ELSE IF fs[f].dflt THEN Decoded(None) ELSE Fail
            rs == [f \in 1..Len(fs) |-> one(f)]
        IN IF Len(a) <= Len(fs) /\ \A f \in 1..Len(fs) : rs[f].ok
           THEN Decoded([n \in FieldNames(T) |->
                           rs[CHOOSE f \in 1..Len(fs) : fs[f].name = n].v])
           ELSE Fail
    ELSE Fail

\* serde_json::from_slice::<T>: parse the text, then read the value as T.
FromJson(T, text) ==
    LET p == ParseJson(text) IN
    IF p.ok THEN DecodeStruct(T, p.v) ELSE Fail

----------------------------------------------------------------------------
(* Strings *)

RECURSIVE Repeat(_, _)
\* str::repeat
Repeat(str, n) == IF n <= 0 THEN "" ELSE str \o Repeat(str, n - 1)

RECURSIVE JoinStr(_, _, _)
\* [String]::join(sep), from the i-th string on
JoinStr(strs, sep, i) ==
    IF i > Len(strs) THEN ""
    ELSE IF i = Len(strs) THEN strs[i]
    ELSE strs[i] \o sep \o JoinStr(strs, sep, i + 1)

Join(strs, sep) == JoinStr(strs, sep, 1)

RECURSIVE TrimEnd(_)
\* str::trim_end: trailing white space removed
TrimEnd(str) ==
    IF Len(str) > 0 /\ SubSeq(str, Len(str), Len(str)) \in {" ", "\n", "\t"}
    THEN TrimEnd(SubSeq(str, 1, Len(str) - 1))
    ELSE str

\* As PadRight, were the cell right-aligned.
PadLeft(cell, width) == Repeat(" ", width - Len(cell)) \o cell

\* format!("{:<width$}", cell): cell padded with spaces on the right
PadRight(cell, width) == cell \o Repeat(" ", width - Len(cell))

RECURSIVE MaxOf(_)
MaxOf(ns) == IF ns = {} THEN 0
             ELSE LET n == CHOOSE x \in ns : TRUE
                      m == MaxOf(ns \ {n})
                  IN IF n > m THEN n ELSE m

----------------------------------------------------------------------------
(* Configuration *)

DEFAULT_PROFILE == "default"

\* Profile {api_key} stored under `name` in ConfigFile.profiles
ProfileEntry(name, api_key) == [name |-> name, api_key |-> api_key]

\* The config file on disk: absent, unreadable, not a ConfigFile in YAML, or
\* one holding the given profiles.
MissingFile == [kind |-> "missing"]
UnreadableFile == [kind |-> "unreadable"]
UnparsableFile == [kind |-> "unparsable"]
FileOf(profiles) == [kind |-> "file", profiles |-> profiles]

\* A file that is there but does not load -- its bytes are not text, or its
\* text is not a ConfigFile in YAML -- while holding the entries `profiles`
\* written to it earlier.
UnreadableHolding(profiles) == [kind |-> "unreadable", profiles |-> profiles]
UnparsableHolding(profiles) == [kind |-> "unparsable", profiles |-> profiles]

\* ConfigFile::default()
DefaultConfigFile == [profiles |-> {}]

\* Config::load_config_file
LoadConfigFile(file) ==
    CASE file.kind = "missing" -> [ok |-> TRUE, v |-> DefaultConfigFile]
      [] file.kind = "unreadable" ->
           [ok |-> FALSE, context |-> "Failed to read config file"]
      [] file.kind = "unparsable" ->
           [ok |-> FALSE, context |-> "Failed to parse config file"]
      [] file.kind = "file" -> [ok |-> TRUE, v |-> [profiles |-> file.profiles]]

\* Result<ConfigFile>::unwrap_or_default
FileOrDefault(r) == IF r.ok THEN r.v ELSE DefaultConfigFile

\* HashMap::get
GetProfile(profiles, name) ==
    IF \E e \in profiles : e.name = name
    THEN Some(CHOOSE e \in profiles : e.name = name)
    ELSE None

\* Option::or_else
OrElse(a, b) == IF a.some THEN a ELSE b

\* As ResolveApiKey, were the file's key to win over the environment's.
ResolveApiKeyFileFirst(env_key, file_profile) ==
    IF file_profile.some /\ file_profile.v.api_key.some
    THEN file_profile.v.api_key
    ELSE env_key

\* std::env::var("RESEND_API_KEY").ok().or_else(|| file_profile.and_then(..))
ResolveApiKey(env_key, file_profile) ==
    OrElse(env_key, IF file_profile.some THEN file_profile.v.api_key ELSE None)

\* As ConfigLoad, were RESEND_PROFILE to win over the profile argument.
ConfigLoadEnvProfileFirst(profile, format, output, verbose, env, file) ==
    LET profile_name ==
            IF env.RESEND_PROFILE.some THEN env.RESEND_PROFILE.v
            ELSE IF profile.some THEN profile.v
            ELSE "default"
        loaded == LoadConfigFile(file)
        profiles == IF loaded.ok THEN loaded.v.profiles ELSE {}
        file_profile == GetProfile(profiles, profile_name)
    IN [api_key |-> ResolveApiKey(env.RESEND_API_KEY, file_profile),
        profile |-> profile_name,
        format |-> IF format.some THEN format.v ELSE "Table",
        output |-> output,
        verbose |-> verbose]

\* As ConfigLoad, were the error of load_config_file returned with `?`.
ConfigLoadPropagating(profile, format, output, verbose, env, file) ==
    LET profile_name ==
            IF profile.some THEN profile.v
            ELSE IF env.RESEND_PROFILE.some THEN env.RESEND_PROFILE.v
            ELSE "default"
        loaded == LoadConfigFile(file)
    IN IF ~loaded.ok THEN loaded
       ELSE [api_key |-> ResolveApiKey(env.RESEND_API_KEY,
                                       GetProfile(loaded.v.profiles, profile_name)),
             profile |-> profile_name,
             format |-> IF format.some THEN format.v ELSE "Table",
             output |-> output,
             verbose |-> verbose]

\* Config::load; env gives, for each variable, what std::env::var(..).ok()
\* returns: the text of a variable that is set, None otherwise.
ConfigLoad(profile, format, output, verbose, env, file) ==
    LET profile_name ==
            IF profile.some THEN profile.v
            ELSE IF env.RESEND_PROFILE.some THEN env.RESEND_PROFILE.v
            ELSE DEFAULT_PROFILE
        config_file == FileOrDefault(LoadConfigFile(file))
        file_profile == GetProfile(config_file.profiles, profile_name)
        resolved_api_key == ResolveApiKey(env.RESEND_API_KEY, file_profile)
    IN [api_key |-> resolved_api_key,
        profile |-> profile_name,
        format |-> IF format.some THEN format.v ELSE "Table",
        output |-> output,
        verbose |-> verbose]

\* Config::default()
ConfigDefault ==
    [api_key |-> None,
     profile |-> DEFAULT_PROFILE,
     format |-> "Table",
     output |-> None,
     verbose |-> FALSE]

\* As ListProfiles, were a file that does not load taken for an empty one.
ListProfilesOrDefault(file) ==
    [ok |-> TRUE,
     v |-> IF LoadConfigFile(file).ok
           THEN {e.name : e \in LoadConfigFile(file).v.profiles}
           ELSE {}]

\* Config::list_profiles: the names of the stored profiles, in the order the
\* map gives them (left open here), or the error of load_config_file
ListProfiles(file) ==
    LET config_file == LoadConfigFile(file)
    IN IF ~config_file.ok THEN config_file
       ELSE [ok |-> TRUE, v |-> {e.name : e \in config_file.v.profiles}]

\* What stands in the way of writing the config file: nothing, no config
\* directory known for the user, or the write refused.
Disks == {"writable", "no_path", "write_fails"}

\* Config::save_config_file: the whole ConfigFile replaces the file
SaveConfigFile(config_file, disk) ==
    CASE disk = "no_path" ->
           [ok |-> FALSE, context |-> "Could not determine config file path"]
      [] disk = "write_fails" ->
           [ok |-> FALSE, context |-> "Failed to write config file"]
      [] disk = "writable" ->
           [ok |-> TRUE, file |-> FileOf(config_file.profiles)]

\* HashMap::insert
Insert(profiles, name, profile) ==
    {e \in profiles : e.name # name} \cup {ProfileEntry(name, profile.api_key)}

\* As SetProfile, were the file written with the new profile alone.
SetProfileAlone(name, api_key, file, disk) ==
    LET saved == SaveConfigFile([profiles |-> {ProfileEntry(name, Some(api_key))}], disk)
    IN IF saved.ok THEN saved
       ELSE [ok |-> FALSE, context |-> saved.context, file |-> file]

\* Config::set_profile: Ok and the file written, or the error of
\* save_config_file and the file as it was
SetProfile(name, api_key, file, disk) ==
    LET config_file == FileOrDefault(LoadConfigFile(file))
        profiles == Insert(config_file.profiles, name, [api_key |-> Some(api_key)])
        saved == SaveConfigFile([profiles |-> profiles], disk)
    IN IF saved.ok THEN saved
       ELSE [ok |-> FALSE, context |-> saved.context, file |-> file]

\* As IsValid, were an empty configuration taken for a usable one.
IsValidAlways(config) == TRUE

\* Config::is_valid
IsValid(config) == config.api_key.some

----------------------------------------------------------------------------
(* Config::mask_key *)

\* As MaskKey, were the key handed back as it is.
MaskKeyUnmasked(key) == key

\* As MaskKey, were one asterisk written for each character hidden.
MaskKeyByLength(key) ==
    IF Len(key) <= 8 THEN Repeat("*", Len(key))
    ELSE SubSeq(key, 1, 8) \o Repeat("*", Len(key) - 8)

MaskKey(key) ==
    LET char_count == Len(key) IN
    IF char_count <= 8
    THEN Repeat("*", char_count)
    ELSE LET prefix == SubSeq(key, 1, 8) IN prefix \o "********"

----------------------------------------------------------------------------
(* Formatters *)

TabularTypes == {"Email", "Domain", "ApiKey", "Template"}

\* As OrEmpty, were an absent field rendered as a dash.
OrEmptyAsDash(o) == IF o.some THEN o.v ELSE "-"

\* Option<String>::unwrap_or_default
OrEmpty(o) == IF o.some THEN o.v ELSE ""

\* Tabular::headers
Headers(T) ==
    CASE T = "Email" -> << "ID", "TO", "SUBJECT", "STATUS", "CREATED" >>
      [] T = "Domain" -> << "ID", "NAME", "STATUS", "REGION" >>
      [] T = "ApiKey" -> << "ID", "NAME", "CREATED" >>
      [] T = "Template" -> << "ID", "NAME", "SUBJECT", "CREATED" >>

\* Tabular::row
Row(T, item) ==
    CASE T = "Email" ->
           << item.id,
              IF item.to.some THEN Join(item.to.v, ", ") ELSE "",
              OrEmpty(item.subject),
              OrEmpty(item.last_event),
              OrEmpty(item.created_at) >>
      [] T = "Domain" ->
           << item.id, item.name, OrEmpty(item.status), OrEmpty(item.region) >>
      [] T = "ApiKey" ->
           << item.id, item.name, OrEmpty(item.created_at) >>
      [] T = "Template" ->
           << item.id, item.name, OrEmpty(item.subject), OrEmpty(item.created_at) >>

\* format_rows: columns as wide as their widest cell, two spaces between
\* them, a line of dashes under the first row, the end trimmed
FormatRows(rows) ==
    IF Len(rows) = 0 THEN ""
    ELSE
      LET num_cols == Len(rows[1])
          widths == [i \in 1..num_cols |->
                       MaxOf({Len(rows[r][i]) : r \in {q \in 1..Len(rows) : i <= Len(rows[q])}})]
          line(r) == Join([i \in 1..Len(rows[r]) |->
                             IF i <= num_cols THEN PadRight(rows[r][i], widths[i])
                             ELSE rows[r][i]], "  ") \o "\n"
          separator == Join([i \in 1..num_cols |-> Repeat("-", widths[i])], "  ") \o "\n"
          output == Join([r \in 1..Len(rows) |->
                            IF r = 1 THEN line(r) \o separator ELSE line(r)], "")
      IN TrimEnd(output)

\* As FormatTable, without the early return for an empty list.
FormatTableAlwaysRows(T, items) ==
    FormatRows(<< Headers(T) >> \o [i \in 1..Len(items) |-> Row(T, items[i])])

\* format_table
FormatTable(T, items) ==
    IF Len(items) = 0 THEN "No results found."
    ELSE FormatRows(<< Headers(T) >> \o [i \in 1..Len(items) |-> Row(T, items[i])])

\* format_single: one "HEADER: value" line per column
FormatSingle(T, item) ==
    Join([i \in 1..Len(Headers(T)) |->
            Headers(T)[i] \o ": " \o Row(T, item)[i] \o "\n"], "")

Indent(n) == Repeat("  ", n)

Quote(str) == "\"" \o str \o "\""

RECURSIVE PrettyAs(_, _, _), PrettyStruct(_, _, _)
\* serde_json's pretty writer: value v of type ty at nesting depth n
PrettyAs(ty, v, n) ==
    CASE ty.c = "String" -> Quote(v)
      [] ty.c = "i32" -> v
      [] ty.c = "Option" -> IF v.some THEN PrettyAs(ty.of, v.v, n) ELSE "null"
      [] ty.c = "Vec" ->
           IF Len(v) = 0 THEN "[]"
           ELSE "[\n"
                \o Join([i \in 1..Len(v) |->
                           Indent(n + 1) \o PrettyAs(ty.of, v[i], n + 1)], ",\n")
                \o "\n" \o Indent(n) \o "]"
      [] ty.c = "struct" -> PrettyStruct(ty.n, v, n)

\* the derived Serialize of a response struct: every field, in declaration
\* order, None as null
PrettyStruct(T, v, n) ==
    LET fs == Fields(T) IN
    "{\n"
    \o Join([i \in 1..Len(fs) |->
               Indent(n + 1) \o Quote(fs[i].name) \o ": "
                 \o PrettyAs(fs[i].ty, v[fs[i].name], n + 1)], ",\n")
    \o "\n" \o Indent(n) \o "}"

\* format_json: serde_json::to_string_pretty(items)
FormatJson(T, items) == PrettyAs(TVec(TStruct(T)), items, 0)

\* format_json_single: serde_json::to_string_pretty(item)
FormatJsonSingle(T, item) == PrettyStruct(T, item, 0)

\* format_and_output_single up to write_output
FormattedSingle(T, item, format) ==
    IF format = "Table" THEN FormatSingle(T, item) ELSE FormatJsonSingle(T, item)

\* format_and_output up to write_output: the text for the chosen format
Formatted(T, items, format) ==
    IF format = "Table" THEN FormatTable(T, items) ELSE FormatJson(T, items)

----------------------------------------------------------------------------
(* Errors *)

\* ApiError's variants; each carries only the fields the enum gives it.
AuthenticationError == [kind |-> "AuthenticationError"]
NotFoundError(m) == [kind |-> "NotFoundError", detail |-> m]
RateLimitError == [kind |-> "RateLimitError"]
ValidationError(m) == [kind |-> "ValidationError", detail |-> m]
ApiErrorOf(status, message) ==
    [kind |-> "ApiError", status |-> status, message |-> message]
NetworkError(m) == [kind |-> "NetworkError", detail |-> m]

ApiErrorKinds ==
    {"AuthenticationError", "NotFoundError", "RateLimitError",
     "ValidationError", "ApiError", "NetworkError"}

\* The anyhow error of a success body that does not decode: the decoder's
\* error under the context "Failed to parse response"; it is no ApiError.
ParseFailure == [kind |-> "ParseFailure", context |-> Lit("Failed to parse response")]

OkOf(v) == [kind |-> "Ok", value |-> v]
\* Ok(()) of delete
Unit == [unit |-> TRUE]

\* The #[error("...")] text of each ApiError variant.
Display(e) ==
    CASE e.kind = "AuthenticationError" ->
           << Lit("Authentication failed. Check your API key.") >>
      [] e.kind = "NotFoundError" ->
           << Lit("Resource not found: ") >> \o e.detail
      [] e.kind = "RateLimitError" ->
           << Lit("Rate limit exceeded. Please try again later.") >>
      [] e.kind = "ValidationError" ->
           << Lit("Validation error: ") >> \o e.detail
      [] e.kind = "ApiError" ->
           << Lit("API error: "), Num(e.status), Lit(" - ") >> \o e.message
      [] e.kind = "NetworkError" ->
           << Lit("Network error: ") >> \o e.detail

----------------------------------------------------------------------------
(* Transport outcomes *)

\* A transport error e: is_timeout is e.is_timeout(), text is e.to_string().
TransportError(phase, isTimeout, text) ==
    [phase |-> phase, is_timeout |-> isTimeout, text |-> << Lit(text) >>]

\* failures while the connection is being established
ConnectErrors ==
    { TransportError("connect", TRUE, "error sending request: operation timed out"),
      TransportError("connect", FALSE, "error sending request: connection refused"),
      TransportError("connect", FALSE, "error sending request: dns error"),
      TransportError("connect", FALSE, "error sending request: invalid peer certificate") }

\* failures after the connection is up and before a response arrives
RequestErrors ==
    { TransportError("request", TRUE, "error sending request: operation timed out"),
      TransportError("request", FALSE, "error sending request: connection reset") }

\* As MapSendError, without the is_timeout branch.
MapSendErrorNoTimeout(e) == NetworkError(e.text)

\* The closure given to map_err after send().await in each verb.
MapSendError(e) ==
    IF e.is_timeout
    THEN NetworkError(<< Lit("Request timeout") >>)
    ELSE NetworkError(e.text)

\* response.text(): the body text, or an error when the body cannot be read.
Text(r) == IF r.readable THEN [ok |-> TRUE, v |-> r.body] ELSE Fail

\* As UnwrapOrDefault, were the text dropped and the default kept.
UnwrapOrDefaultEmpty(r) == << >>

\* Result<String>::unwrap_or_default
UnwrapOrDefault(r) == IF r.ok THEN r.v ELSE << >>

\* response.json::<T>(): read the body, then decode it.
Json(T, r) ==
    LET t == Text(r) IN
    IF t.ok THEN FromJson(T, t.v) ELSE Fail

----------------------------------------------------------------------------
(* Response interpretation *)

\* handle_response with other status sets in its success, authentication
\* and validation arms: the shape of the slips the variants below make.
HandleResponseWith(T, r, success, auth, validation) ==
    CASE r.status \in success ->
           LET body == Json(T, r) IN
           IF body.ok THEN OkOf(body.v) ELSE ParseFailure
      [] r.status \in auth -> AuthenticationError
      [] r.status = NOT_FOUND -> NotFoundError(UnwrapOrDefault(Text(r)))
      [] r.status = TOO_MANY_REQUESTS -> RateLimitError
      [] r.status \in validation -> ValidationError(UnwrapOrDefault(Text(r)))
      [] OTHER -> ApiErrorOf(r.status, UnwrapOrDefault(Text(r)))

\* As HandleResponse, with FORBIDDEN left out of the authentication arm.
HandleResponseForbiddenUnmapped(T, r) ==
    HandleResponseWith(T, r, {OK, CREATED}, {UNAUTHORIZED},
                       {UNPROCESSABLE_ENTITY, BAD_REQUEST})

\* As HandleResponse, with BAD_REQUEST left out of the validation arm.
HandleResponseBadRequestUnmapped(T, r) ==
    HandleResponseWith(T, r, {OK, CREATED}, {UNAUTHORIZED, FORBIDDEN},
                       {UNPROCESSABLE_ENTITY})

\* As HandleResponse, with every 2xx status taken as success.
HandleResponseAny2xx(T, r) ==
    HandleResponseWith(T, r, 200..299, {UNAUTHORIZED, FORBIDDEN},
                       {UNPROCESSABLE_ENTITY, BAD_REQUEST})

\* handle_response::<T>, the tail of get, post and patch
HandleResponse(T, r) ==
    CASE r.status \in {OK, CREATED} ->
           LET body == Json(T, r) IN
           IF body.ok THEN OkOf(body.v) ELSE ParseFailure
      [] r.status \in {UNAUTHORIZED, FORBIDDEN} -> AuthenticationError
      [] r.status = NOT_FOUND -> NotFoundError(UnwrapOrDefault(Text(r)))
      [] r.status = TOO_MANY_REQUESTS -> RateLimitError
      [] r.status \in {UNPROCESSABLE_ENTITY, BAD_REQUEST} ->
           ValidationError(UnwrapOrDefault(Text(r)))
      [] OTHER -> ApiErrorOf(r.status, UnwrapOrDefault(Text(r)))

\* As DeleteResponse, were delete to end in handle_response for every
\* status but NO_CONTENT, so that a 200 body is decoded.
DeleteResponseDecoding(r) ==
    IF r.status = NO_CONTENT THEN OkOf(Unit)
    ELSE LET h == HandleResponse("SendEmailResponse", r) IN
         IF h.kind = "Ok" THEN OkOf(Unit) ELSE h

\* As DeleteResponse, with the validation arm missing from the copy.
DeleteResponseNoValidation(r) ==
    CASE r.status \in {OK, NO_CONTENT} -> OkOf(Unit)
      [] r.status \in {UNAUTHORIZED, FORBIDDEN} -> AuthenticationError
      [] r.status = NOT_FOUND -> NotFoundError(UnwrapOrDefault(Text(r)))
      [] r.status = TOO_MANY_REQUESTS -> RateLimitError
      [] OTHER -> ApiErrorOf(r.status, UnwrapOrDefault(Text(r)))

\* the match on the status inside delete
DeleteResponse(r) ==
    CASE r.status \in {OK, NO_CONTENT} -> OkOf(Unit)
      [] r.status \in {UNAUTHORIZED, FORBIDDEN} -> AuthenticationError
      [] r.status = NOT_FOUND -> NotFoundError(UnwrapOrDefault(Text(r)))
      [] r.status = TOO_MANY_REQUESTS -> RateLimitError
      [] r.status \in {UNPROCESSABLE_ENTITY, BAD_REQUEST} ->
           ValidationError(UnwrapOrDefault(Text(r)))
      [] OTHER -> ApiErrorOf(r.status, UnwrapOrDefault(Text(r)))

\* What a verb returns for a response: delete matches the status itself,
\* get, post and patch end in handle_response.
VerbResponse(o, r) ==
    IF o.verb = "DELETE" THEN DeleteResponse(r) ELSE HandleResponse(o.T, r)

\* As AfterOutcome, were a rate-limited request sent again.
AfterOutcomeRetryRateLimit(outcome) ==
    IF outcome.kind = "RateLimitError" THEN "built" ELSE "done"

\* As AfterOutcome, were a request that failed in the transport sent again.
AfterOutcomeRetryNetwork(outcome) ==
    IF outcome.kind = "NetworkError" THEN "built" ELSE "done"

\* Where a verb goes once it holds an outcome: every arm is the verb's
\* value (`?` on the send error, the match as tail expression), so it returns.
AfterOutcome(outcome) == "done"

----------------------------------------------------------------------------
(* Typed value -> JSON text (the derived Serialize of the request types) *)

TBool == [c |-> "bool"]

\* a field of a request type: skip is TRUE when it carries
\* #[serde(skip_serializing_if = "Option::is_none")]
ReqField(name, ty, skip) == [name |-> name, ty |-> ty, skip |-> skip]

ReqFields(T) ==
    CASE T = "SendEmailRequest" ->
           << ReqField("from", TString, FALSE),
              ReqField("to", TVec(TString), FALSE),
              ReqField("subject", TString, FALSE),
              ReqField("html", TOption(TString), TRUE),
              ReqField("text", TOption(TString), TRUE),
              ReqField("cc", TOption(TVec(TString)), TRUE),
              ReqField("bcc", TOption(TVec(TString)), TRUE),
              ReqField("reply_to", TOption(TVec(TString)), TRUE),
              ReqField("scheduled_at", TOption(TString), TRUE) >>
      [] T = "UpdateEmailRequest" ->
           << ReqField("scheduled_at", TString, FALSE) >>
      [] T = "CreateDomainRequest" ->
           << ReqField("name", TString, FALSE),
              ReqField("region", TOption(TString), TRUE) >>
      [] T = "UpdateDomainRequest" ->
           << ReqField("click_tracking", TOption(TBool), TRUE),
              ReqField("open_tracking", TOption(TBool), TRUE),
              ReqField("tls", TOption(TString), TRUE) >>
      [] T = "CreateApiKeyRequest" ->
           << ReqField("name", TString, FALSE),
              ReqField("permission", TOption(TString), TRUE),
              ReqField("domain_id", TOption(TString), TRUE) >>
      [] T = "CreateTemplateRequest" ->
           << ReqField("name", TString, FALSE),
              ReqField("subject", TString, FALSE),
              ReqField("html", TOption(TString), TRUE),
              ReqField("text", TOption(TString), TRUE) >>
      [] T = "UpdateTemplateRequest" ->
           << ReqField("name", TOption(TString), TRUE),
              ReqField("subject", TOption(TString), TRUE),
              ReqField("html", TOption(TString), TRUE),
              ReqField("text", TOption(TString), TRUE) >>
      \* serde_json::json!({}) of cancel_email and verify_domain
      [] T = "json!({})" -> << >>

RequestTypes ==
    {"SendEmailRequest", "UpdateEmailRequest", "CreateDomainRequest",
     "UpdateDomainRequest", "CreateApiKeyRequest", "CreateTemplateRequest",
     "UpdateTemplateRequest"}

ReqFieldNames(T) == {ReqFields(T)[i].name : i \in 1..Len(ReqFields(T))}
OptionalNames(T) ==
    {ReqFields(T)[i].name : i \in {j \in 1..Len(ReqFields(T)) :
                                      ReqFields(T)[j].ty.c = "Option"}}

RECURSIVE Joined(_, _)
\* the texts of parts with a comma between each two
Joined(parts, i) ==
    IF i > Len(parts) THEN << >>
    ELSE IF i = Len(parts) THEN parts[i]
    ELSE parts[i] \o << P(",") >> \o Joined(parts, i + 1)

RECURSIVE SerializeAs(_, _)
\* value v of type ty as JSON text
SerializeAs(ty, v) ==
    CASE ty.c = "String" -> << S(v) >>
      [] ty.c = "bool" -> << W(IF v THEN "true" ELSE "false") >>
      [] ty.c = "Option" ->
           IF v.some THEN SerializeAs(ty.of, v.v) ELSE << W("null") >>
      [] ty.c = "Vec" ->
           << P("[") >>
             \o Joined([i \in 1..Len(v) |-> SerializeAs(ty.of, v[i])], 1)
             \o << P("]") >>

\* As SkipField, were skip_serializing_if missing from the field.
SkipFieldNever(f, v) == FALSE

\* Whether the derived Serialize leaves field f with value v out.
SkipField(f, v) == f.skip /\ ~v.some

RECURSIVE Kept(_, _, _)
\* the fields of fs, from the i-th on, that are written for value v
Kept(fs, v, i) ==
    IF i > Len(fs) THEN << >>
    ELSE IF SkipField(fs[i], v[fs[i].name]) THEN Kept(fs, v, i + 1)
    ELSE << fs[i] >> \o Kept(fs, v, i + 1)

\* struct value v of request type T as JSON text: an object of the fields
\* kept, in declaration order
SerializeStruct(T, v) ==
    LET ks == Kept(ReqFields(T), v, 1) IN
    << P("{") >>
      \o Joined([i \in 1..Len(ks) |->
                   << S(ks[i].name), P(":") >> \o SerializeAs(ks[i].ty, v[ks[i].name])],
                1)
      \o << P("}") >>

\* RequestBuilder::json(body): the body text of a post or patch
ToJson(T, v) == SerializeStruct(T, v)

(* Inputs: the request values a caller can pass *)

SampleOf(ty, name) ==
    CASE ty.c = "String" ->
           (CASE name = "from" -> "a@x.com"
              [] name = "subject" -> "Hi"
              [] name = "scheduled_at" -> "2030-01-01T00:00:00Z"
              [] OTHER -> "v")
      [] ty.c = "bool" -> (name = "click_tracking")
      [] ty.c = "Vec" ->
           IF name = "to" THEN << "b@y.com" >> ELSE << "c@z.com", "d@z.com" >>

\* the value of request type T whose optional fields in `set` are set
Dto(T, set) ==
    [n \in ReqFieldNames(T) |->
        LET f == ReqFields(T)[CHOOSE i \in 1..Len(ReqFields(T)) :
                                 ReqFields(T)[i].name = n]
        IN IF f.ty.c = "Option"
           THEN IF n \in set THEN Some(SampleOf(f.ty.of, n)) ELSE None
           ELSE SampleOf(f.ty, n)]

\* every combination of set and unset optional fields
AllDtos(T) == {Dto(T, set) : set \in SUBSET OptionalNames(T)}

----------------------------------------------------------------------------
(* Resource operations *)

Ids == {"id-1"}

GetT(name, path, T) ==
    [name |-> name, verb |-> "GET", path |-> path, B |-> "none", T |-> T]
PostT(name, path, B, T) ==
    [name |-> name, verb |-> "POST", path |-> path, B |-> B, T |-> T]
\* As PatchT, were the verb PUT.
PatchTAsPut(name, path, B, T) ==
    [name |-> name, verb |-> "PUT", path |-> path, B |-> B, T |-> T]
PatchT(name, path, B, T) ==
    [name |-> name, verb |-> "PATCH", path |-> path, B |-> B, T |-> T]
DeleteT(name, path) ==
    [name |-> name, verb |-> "DELETE", path |-> path, B |-> "none", T |-> "()"]

\* Each public operation as the verb, path, body type and response type it
\* binds; format! writes the id into the path.
Operations ==
    { PostT("send_email", "/emails", "SendEmailRequest", "SendEmailResponse"),
      GetT("list_emails", "/emails", "EmailsResponse"),
      PostT("create_domain", "/domains", "CreateDomainRequest", "Domain"),
      GetT("list_domains", "/domains", "DomainsResponse"),
      PostT("create_api_key", "/api-keys", "CreateApiKeyRequest", "ApiKey"),
      GetT("list_api_keys", "/api-keys", "ApiKeysResponse"),
      PostT("create_template", "/templates", "CreateTemplateRequest", "Template"),
      GetT("list_templates", "/templates", "TemplatesResponse"),
      GetT("test_connection", "/domains", "DomainsResponse") }
    \cup UNION { {
      GetT("get_email", "/emails/" \o id, "Email"),
      PostT("cancel_email", "/emails/" \o id \o "/cancel", "json!({})", "Email"),
      PatchT("update_email", "/emails/" \o id, "UpdateEmailRequest", "Email"),
      GetT("get_domain", "/domains/" \o id, "Domain"),
      PostT("verify_domain", "/domains/" \o id \o "/verify", "json!({})", "Domain"),
      PatchT("update_domain", "/domains/" \o id, "UpdateDomainRequest", "Domain"),
      DeleteT("delete_domain", "/domains/" \o id),
      DeleteT("delete_api_key", "/api-keys/" \o id),
      GetT("get_template", "/templates/" \o id, "Template"),
      PatchT("update_template", "/templates/" \o id, "UpdateTemplateRequest", "Template"),
      DeleteT("delete_template", "/templates/" \o id) } : id \in Ids }

ListOperations ==
    {"list_emails", "list_domains", "list_api_keys", "list_templates"}

\* seq back to front
Reversed(seq) == [i \in 1..Len(seq) |-> seq[Len(seq) + 1 - i]]

\* As OperationResult, were a list handed back in reverse order.
OperationResultReversed(o, r) ==
    IF r.kind # "Ok" THEN r
    ELSE IF o.name \in {"list_emails", "list_domains", "list_api_keys", "list_templates"}
    THEN [kind |-> "Ok", value |-> Reversed(r.value.data)]
    ELSE IF o.name = "test_connection" THEN [kind |-> "Ok", value |-> TRUE]
    ELSE r

\* As OperationResult, were test_connection to answer false on a failure.
OperationResultFalseOnFailure(o, r) ==
    IF o.name = "test_connection" THEN [kind |-> "Ok", value |-> r.kind = "Ok"]
    ELSE IF r.kind # "Ok" THEN r
    ELSE IF o.name \in {"list_emails", "list_domains", "list_api_keys", "list_templates"}
    THEN [kind |-> "Ok", value |-> r.value.data]
    ELSE r

\* What the public operation returns given what its verb returned: a list
\* operation unwraps the envelope, test_connection answers true, every
\* other operation returns the verb's value; an error passes through.
OperationResult(o, r) ==
    IF r.kind # "Ok" THEN r
    ELSE IF o.name \in ListOperations THEN OkOf(r.value.data)
    ELSE IF o.name = "test_connection" THEN OkOf(TRUE)
    ELSE r

----------------------------------------------------------------------------
(* Inputs: the responses a server can give *)

Statuses ==
    {OK, CREATED, 202, NO_CONTENT, BAD_REQUEST, UNAUTHORIZED, FORBIDDEN,
     NOT_FOUND, 418, UNPROCESSABLE_ENTITY, TOO_MANY_REQUESTS, 500, 503}

\* {"k": "v"} as tokens
Member(k, v) == << S(k), P(":"), S(v) >>

EmptyBody == << >>
\* Not Found
PlainTextBody == << W("Not"), W("Found") >>
\* {}
EmptyObjectBody == << P("{"), P("}") >>
\* {"id":"e1"}
IdBody == << P("{") >> \o Member("id", "e1") \o << P("}") >>
\* {"id":"d1","name":"x.com"}
IdNameBody ==
    << P("{") >> \o Member("id", "d1") \o << P(",") >>
       \o Member("name", "x.com") \o << P("}") >>
\* {"name":"x.com"}
NameOnlyBody == << P("{") >> \o Member("name", "x.com") \o << P("}") >>
\* {"id":null,"name":"x.com"}
NullIdBody ==
    << P("{"), S("id"), P(":"), W("null"), P(",") >>
       \o Member("name", "x.com") \o << P("}") >>
\* {"id":"e1","name":"n1","subject":"Hi","to":["b@y.com"],"extra":"z","from":null}
FullBody ==
    << P("{") >> \o Member("id", "e1") \o << P(",") >>
       \o Member("name", "n1") \o << P(",") >>
       \o Member("subject", "Hi") \o << P(",") >>
       \o << S("to"), P(":"), P("["), S("b@y.com"), P("]"), P(",") >>
       \o Member("extra", "z") \o << P(",") >>
       \o << S("from"), P(":"), W("null"), P("}") >>
\* {"id":"e1","id":"e2","name":"n1"}
DuplicateIdBody ==
    << P("{") >> \o Member("id", "e1") \o << P(",") >>
       \o Member("id", "e2") \o << P(",") >>
       \o Member("name", "n1") \o << P("}") >>
\* {"id":"e1"   (cut short)
TruncatedBody == << P("{") >> \o Member("id", "e1")
\* {"message":"bad","name":"validation_error"}
ErrorBody ==
    << P("{") >> \o Member("message", "bad") \o << P(",") >>
       \o Member("name", "validation_error") \o << P("}") >>
\* ["e1","n1"]
ArrayBody == << P("["), S("e1"), P(","), S("n1"), P("]") >>
\* {"data":[]}
EmptyDataBody == << P("{"), S("data"), P(":"), P("["), P("]"), P("}") >>
\* {"data":[{"id":"d1","name":"x.com"},{"id":"e1"}]}
MixedDataBody ==
    << P("{"), S("data"), P(":"), P("[") >> \o IdNameBody \o << P(",") >>
       \o IdBody \o << P("]"), P("}") >>
\* {"data":[{"id":"d2","name":"y.com"},{"id":"d1","name":"x.com"}]}
TwoDataBody ==
    << P("{"), S("data"), P(":"), P("["), P("{") >>
       \o Member("id", "d2") \o << P(",") >> \o Member("name", "y.com")
       \o << P("}"), P(",") >> \o IdNameBody \o << P("]"), P("}") >>

Bodies ==
    { EmptyBody, PlainTextBody, EmptyObjectBody, IdBody, IdNameBody,
      NameOnlyBody, NullIdBody, FullBody, DuplicateIdBody, TruncatedBody,
      ErrorBody, ArrayBody, EmptyDataBody, MixedDataBody, TwoDataBody }

\* A response: its status, the body text the server sent, and whether the
\* client gets to read that body to its end.
Responses == [status : Statuses, body : Bodies, readable : BOOLEAN]

Keys == {"re_123456789", "re_abc"}

----------------------------------------------------------------------------
(* State machine *)

NoOp == [name |-> "none"]
NoFn == [stage |-> "none"]
NoProc == [stage |-> "none"]
NoRequest == [method |-> "none"]
NoFault == [phase |-> "none"]
NoResponse == [status |-> 0]
Pending == [kind |-> "Pending"]

\* format!("{}{}", BASE_URL, path)
Url(path) == BASE_URL \o path

\* As BearerAuth, were the header written without the key.
BearerAuthNoKey(key) == "Bearer "

\* RequestBuilder::bearer_auth(key): the value of the Authorization header
BearerAuth(key) == "Bearer " \o key

\* no .json(body) on the builder
NoJson == [T |-> "none"]

\* As Request, were .json(body) left off the builder.
RequestWithoutJson(c, method, path, json) ==
    [method |-> method,
     url |-> "https://api.resend.com" \o path,
     authorization |-> "Bearer " \o c.api_key,
     json |-> json,
     body |-> << >>]

\* The request a verb of client c builds for `path`; json is the value
\* handed to .json(body), NoJson for get and delete.
Request(c, method, path, json) ==
    [method |-> method,
     url |-> Url(path),
     authorization |-> BearerAuth(c.api_key),
     json |-> json,
     body |-> IF json.T = "none" THEN << >> ELSE ToJson(json.T, json.v)]

\* the values a caller passes as the body of operation o: every optional
\* field unset, or every one set
Args(o) ==
    IF o.B = "none" THEN {NoJson}
    ELSE {[T |-> o.B, v |-> Dto(o.B, set)] : set \in {{}, OptionalNames(o.B)}}

\* ResendClient::new: the key, and a transport built with both timeouts.
NewClient(key) ==
    [api_key |-> key,
     timeout |-> TIMEOUT_SECS,
     connect_timeout |-> CONNECT_TIMEOUT_SECS]

\* The transport's timers: the connect timeout runs while connecting, the
\* total timeout from send() on.
ConnectTimedOut(c, t) == t >= c.connect_timeout \/ t >= c.timeout
RequestTimedOut(c, t) == t >= c.timeout

Init ==
    /\ client \in {NewClient(k) : k \in Keys}
    /\ pc = "idle"
    /\ op = NoOp
    /\ req = NoRequest
    /\ sent = 0
    /\ elapsed = 0
    /\ fault = NoFault
    /\ resp = NoResponse
    /\ ret = Pending
    /\ result = Pending
    /\ ops = 0
    /\ calls = 0
    /\ fn = NoFn
    /\ proc = NoProc

\* A public operation is called: its verb builds the request.
Call(o, json) ==
    /\ pc = "idle"
    /\ ops < MaxOps
    /\ op' = o
    /\ req' = Request(client, o.verb, o.path, json)
    /\ sent' = 0
    /\ elapsed' = 0
    /\ fault' = NoFault
    /\ resp' = NoResponse
    /\ ret' = Pending
    /\ result' = Pending
    /\ pc' = "built"
    /\ UNCHANGED <<client, ops, calls, fn, proc>>

\* As Send, were the client to shorten its timeout with every request.
SendShorteningTimeout ==
    /\ pc = "built"
    /\ sent' = sent + 1
    /\ calls' = calls + 1
    /\ elapsed' = 0
    /\ pc' = "connecting"
    /\ client' = [client EXCEPT !.timeout = client.connect_timeout]
    /\ UNCHANGED <<op, req, fault, resp, ret, result, ops, fn, proc>>

\* send(): the request is handed to the transport and the verb awaits.
Send ==
    /\ pc = "built"
    /\ sent' = sent + 1
    /\ calls' = calls + 1
    /\ elapsed' = 0
    /\ pc' = "connecting"
    /\ UNCHANGED <<client, op, req, fault, resp, ret, result, ops, fn, proc>>

\* Time passes while the verb awaits, as long as no timer has run out.
Tick ==
    /\ \/ pc = "connecting" /\ ~ConnectTimedOut(client, elapsed)
       \/ pc = "waiting" /\ ~RequestTimedOut(client, elapsed)
    /\ elapsed' = elapsed + TickSecs
    /\ UNCHANGED <<client, pc, op, req, sent, fault, resp, ret, result, ops, calls, fn, proc>>

\* The verb resumes holding `outcome` and ends with it.
Finish(outcome) ==
    /\ ret' = outcome
    /\ pc' = AfterOutcome(outcome)
    /\ result' = IF AfterOutcome(outcome) = "done"
                 THEN OperationResult(op, outcome)
                 ELSE Pending

\* The transport fails to connect: with a timeout error exactly when a
\* timer has run out, with another error before that.
ConnectFail(e) ==
    /\ pc = "connecting"
    /\ e.is_timeout <=> ConnectTimedOut(client, elapsed)
    /\ fault' = e
    /\ Finish(MapSendError(e))
    /\ UNCHANGED <<client, op, req, sent, elapsed, resp, ops, calls, fn, proc>>

\* The connection is up in time; the request goes out.
Connected ==
    /\ pc = "connecting"
    /\ ~ConnectTimedOut(client, elapsed)
    /\ pc' = "waiting"
    /\ UNCHANGED <<client, op, req, sent, elapsed, fault, resp, ret, result, ops, calls, fn, proc>>

\* The transport fails before a response arrives: with a timeout error
\* exactly when the total timeout has run out.
RequestFail(e) ==
    /\ pc = "waiting"
    /\ e.is_timeout <=> RequestTimedOut(client, elapsed)
    /\ fault' = e
    /\ Finish(MapSendError(e))
    /\ UNCHANGED <<client, op, req, sent, elapsed, resp, ops, calls, fn, proc>>

\* A response arrives in time and the verb interprets it.
Respond(r) ==
    /\ pc = "waiting"
    /\ ~RequestTimedOut(client, elapsed)
    /\ resp' = r
    /\ Finish(VerbResponse(op, r))
    /\ UNCHANGED <<client, op, req, sent, elapsed, fault, ops, calls, fn, proc>>

\* The caller takes the result; the client is ready for the next operation.
Return ==
    /\ pc = "done"
    /\ pc' = "idle"
    /\ ops' = ops + 1
    /\ elapsed' = 0
    /\ UNCHANGED <<client, op, req, sent, fault, resp, ret, result, calls, fn, proc>>

\* What happens while a verb is suspended on send().await.
Await ==
    \/ Tick
    \/ \E e \in ConnectErrors : ConnectFail(e)
    \/ Connected
    \/ \E e \in RequestErrors : RequestFail(e)
    \/ \E r \in Responses : Respond(r)

Next ==
    \/ \E o \in Operations : \E json \in Args(o) : Call(o, json)
    \/ Send
    \/ Await
    \/ Return

Spec == Init /\ [][Next]_vars

\* The runtime keeps polling a suspended verb: time passes or the transport
\* yields, and the timers of the client bound how long time can pass.
LiveSpec == Spec /\ WF_vars(Await)

----------------------------------------------------------------------------
(* Properties of the response interpretation *)

\* A response has been interpreted: ret holds the verb's value for resp.
Answered == resp.status # 0

BodyVerbs == {"GET", "POST", "PATCH"}

ResponseTypes ==
    {"SendEmailResponse", "Email", "EmailsResponse", "Domain", "DomainsResponse",
     "ApiKey", "ApiKeysResponse", "Template", "TemplatesResponse"}

\* C1: a 401 or 403 response makes every verb return AuthenticationError,
\* the same value whatever the body; its message is the fixed text and holds
\* no token of the body.
C1_AuthenticationIgnoresBody ==
    (Answered /\ resp.status \in {401, 403}) =>
        /\ ret = [kind |-> "AuthenticationError"]
        /\ result = ret
        /\ Display(ret) = << Lit("Authentication failed. Check your API key.") >>
        /\ Range(Display(ret)) \cap Range(resp.body) = {}

C1_Witness ==
    /\ pc = "done"
    /\ op.verb = "DELETE"
    /\ resp.status = 403
    /\ resp.body = ErrorBody
    /\ ret.kind = "AuthenticationError"

\* C2: a 400 or 422 response whose body text the client has read makes every
\* verb return ValidationError with that text, unchanged, as its detail; the
\* empty text included.
C2_ValidationDetailIsBody ==
    (Answered /\ resp.status \in {400, 422} /\ resp.readable) =>
        /\ ret = [kind |-> "ValidationError", detail |-> resp.body]
        /\ result = ret
        /\ Display(ret) = << Lit("Validation error: ") >> \o resp.body

C2_Witness ==
    /\ pc = "done"
    /\ op.verb = "POST"
    /\ resp.status = 400
    /\ resp.readable
    /\ resp.body = ErrorBody
    /\ ret.kind = "ValidationError"
    /\ ret.detail = ErrorBody

\* C3: a 404 response whose body text the client has read makes every verb
\* return NotFoundError with that text as its detail.
C3_NotFoundDetailIsBody ==
    (Answered /\ resp.status = 404 /\ resp.readable) =>
        /\ ret = [kind |-> "NotFoundError", detail |-> resp.body]
        /\ result = ret
        /\ Display(ret) = << Lit("Resource not found: ") >> \o resp.body

C3_Witness ==
    /\ pc = "done"
    /\ op.verb = "GET"
    /\ resp.status = 404
    /\ resp.readable
    /\ resp.body = PlainTextBody
    /\ ret.kind = "NotFoundError"
    /\ ret.detail = PlainTextBody

\* C4: a 429 response makes the operation return RateLimitError with its
\* fixed message, and the operation's request has gone to the transport
\* exactly once, then and ever after until the next operation.
C4_RateLimitNotReissued ==
    (Answered /\ resp.status = 429) =>
        /\ ret = [kind |-> "RateLimitError"]
        /\ Display(ret) = << Lit("Rate limit exceeded. Please try again later.") >>
        /\ pc \in {"done", "idle"}
        /\ result = ret
        /\ sent = 1

C4_Witness ==
    /\ pc = "idle"
    /\ ops = 1
    /\ resp.status = 429
    /\ ret.kind = "RateLimitError"
    /\ sent = 1
    /\ calls = 1

\* C5: for get, post and patch, a status outside 200, 201, 400, 401, 403,
\* 404, 422 and 429 gives ApiError with that status and, the body text read,
\* that text as its message; and no status but 200 and 201 gives a success.
C5_OtherStatusIsApiError ==
    (Answered /\ op.verb \in BodyVerbs) =>
        /\ (resp.status \notin {200, 201, 400, 401, 403, 404, 422, 429}) =>
              /\ ret.kind = "ApiError"
              /\ ret.status = resp.status
              /\ resp.readable => ret.message = resp.body
              /\ resp.readable =>
                    Display(ret) = << Lit("API error: "), Num(resp.status), Lit(" - ") >>
                                       \o resp.body
              /\ result = ret
        /\ (resp.status \notin {200, 201}) =>
              (ret.kind # "Ok" /\ result.kind # "Ok")

C5_Witness ==
    /\ pc = "done"
    /\ op.verb = "PATCH"
    /\ resp.status = 204
    /\ resp.readable
    /\ resp.body = IdNameBody
    /\ ret.kind = "ApiError"
    /\ ret.status = 204
    /\ ret.message = IdNameBody

----------------------------------------------------------------------------
(* Properties of decoding and of delete *)

EmailOf(id, to, subject) ==
    [id |-> id, from |-> None, to |-> to, subject |-> subject,
     created_at |-> None, last_event |-> None]
DomainOf(id, name) ==
    [id |-> id, name |-> name, status |-> None, region |-> None, records |-> None]

\* Body text b, read as type T, is the value v.
DecodesTo(T, b, v) ==
    (op.T = T /\ resp.body = b) => (ret = [kind |-> "Ok", value |-> v])

\* Body text b, read as type T, lacks a required field.
LacksRequired(T, b) ==
    (op.T = T /\ resp.body = b) =>
        /\ ret = [kind |-> "ParseFailure",
                  context |-> Lit("Failed to parse response")]
        /\ result = ret

\* C6: for get, post and patch, a 200 or 201 response whose body (read by the
\* client) matches the expected type gives that value; a body lacking a
\* required field gives the decode failure, never a value with the field
\* filled in, and the decode failure is none of the six ApiError kinds.
C6_DecodeOrFail ==
    (Answered /\ op.verb \in BodyVerbs /\ resp.status \in {200, 201}
        /\ resp.readable) =>
        /\ DecodesTo("SendEmailResponse", IdBody, [id |-> "e1"])
        /\ DecodesTo("Email", IdBody, EmailOf("e1", None, None))
        /\ DecodesTo("Email", FullBody,
                     EmailOf("e1", Some(<< "b@y.com" >>), Some("Hi")))
        /\ DecodesTo("Domain", IdNameBody, DomainOf("d1", "x.com"))
        /\ DecodesTo("ApiKey", IdNameBody,
                     [id |-> "d1", name |-> "x.com", token |-> None,
                      created_at |-> None])
        /\ DecodesTo("Template", FullBody,
                     [id |-> "e1", name |-> "n1", subject |-> Some("Hi"),
                      created_at |-> None])
        /\ DecodesTo("DomainsResponse", TwoDataBody,
                     [data |-> << DomainOf("d2", "y.com"), DomainOf("d1", "x.com") >>])
        /\ LacksRequired("SendEmailResponse", ErrorBody)
        /\ LacksRequired("Email", EmptyObjectBody)
        /\ LacksRequired("Email", NameOnlyBody)
        /\ LacksRequired("Domain", NameOnlyBody)
        /\ LacksRequired("Domain", IdBody)
        /\ LacksRequired("ApiKey", IdBody)
        /\ LacksRequired("Template", ErrorBody)
        /\ LacksRequired("DomainsResponse", MixedDataBody)
        /\ LacksRequired("TemplatesResponse", EmptyObjectBody)
        /\ ret.kind \in {"Ok", "ParseFailure"}
        /\ ret.kind \notin
              {"AuthenticationError", "NotFoundError", "RateLimitError",
               "ValidationError", "ApiError", "NetworkError"}

C6_Witness ==
    /\ pc = "done"
    /\ op.name = "get_domain"
    /\ resp.status = 200
    /\ resp.readable
    /\ resp.body = IdBody
    /\ ret.kind = "ParseFailure"
    /\ result.kind = "ParseFailure"

\* C7: delete returns success with no value for a 200 and for a 204
\* response, whatever the body and whether or not it can be read.
C7_DeleteSuccessIgnoresBody ==
    (Answered /\ op.verb = "DELETE" /\ resp.status \in {200, 204}) =>
        /\ ret = [kind |-> "Ok", value |-> [unit |-> TRUE]]
        /\ result = ret

C7_Witness ==
    /\ pc = "done"
    /\ op.name = "delete_domain"
    /\ resp.status = 200
    /\ resp.body = PlainTextBody
    /\ ret.kind = "Ok"

\* C8: outside the success step, delete and the verbs that end in
\* handle_response return the same error for the same response: for every
\* status but 200, 201 and 204 the value of the verb that ran is the value
\* the other interpretation gives.  The success step alone differs: delete
\* takes 201, and handle_response takes 204, as any other status.
C8_DeleteClassifiesAlike ==
    Answered =>
        /\ (resp.status \notin {200, 201, 204}) =>
              /\ ret.kind # "Ok"
              /\ IF op.verb = "DELETE"
                 THEN \A T \in ResponseTypes : HandleResponse(T, resp) = ret
                 ELSE DeleteResponse(resp) = ret
        /\ (op.verb = "DELETE" /\ resp.status = 201) =>
              (ret.kind = "ApiError" /\ ret.status = 201)
        /\ (op.verb \in BodyVerbs /\ resp.status = 204) =>
              (ret.kind = "ApiError" /\ ret.status = 204)

C8_Witness ==
    /\ pc = "done"
    /\ op.name = "delete_template"
    /\ resp.status = 422
    /\ resp.body = ErrorBody
    /\ resp.readable
    /\ ret = HandleResponse("Template", resp)
    /\ ret.kind = "ValidationError"

----------------------------------------------------------------------------
(* Properties of the transport boundary *)

Awaiting == pc \in {"connecting", "waiting"}

\* The verb holds the outcome of a transport failure.
Failed == fault.phase # "none"

NetworkErrorOfFault ==
    Failed =>
        /\ ~Answered
        /\ ret.kind = "NetworkError"
        /\ fault.is_timeout => ret.detail = << Lit("Request timeout") >>
        /\ ~fault.is_timeout => ret.detail = fault.text
        /\ result = ret

\* C9: a transport failure before any response makes every verb return
\* NetworkError, with the fixed text "Request timeout" for a timeout (of the
\* connect timer or of the total timer) and the transport's own description
\* otherwise; and an operation that awaits the transport always ends.
C9_NetworkErrorAndNoHang ==
    /\ [](NetworkErrorOfFault)
    /\ Awaiting ~> (pc = "done")

C9_Witness ==
    /\ pc = "done"
    /\ fault.phase = "connect"
    /\ fault.is_timeout
    /\ elapsed >= 10
    /\ ret.kind = "NetworkError"
    /\ ret.detail = << Lit("Request timeout") >>

\* C10: every operation hands exactly one request to the transport, whatever
\* its outcome, and a failure is the operation's result as it is.
C10_OneRequestPerOperation ==
    /\ sent <= 1
    /\ (pc \in {"connecting", "waiting", "done"}) => (sent = 1)
    /\ calls = ops + (IF pc \in {"connecting", "waiting", "done"} THEN 1 ELSE 0)
    /\ (pc = "done") =>
          /\ ret.kind # "Pending"
          /\ (Answered \/ Failed)
          /\ (ret.kind # "Ok") => (result = ret)

C10_Witness ==
    /\ pc = "done"
    /\ ops = 1
    /\ calls = 2
    /\ sent = 1
    /\ fault.phase = "request"
    /\ fault.is_timeout
    /\ ret.kind = "NetworkError"

----------------------------------------------------------------------------
(* The pure functions of the program, each applied to one input *)

\* a function about to be applied to input x
Input(f, x) == [stage |-> "in", f |-> f, in |-> x]

\* every value of request type T
ToJsonInputs(T) == {Input("to_json", [T |-> T, v |-> v]) : v \in AllDtos(T)}

\* no client, no operation
Quiet ==
    /\ client = NewClient("")
    /\ pc = "idle"
    /\ op = NoOp
    /\ req = NoRequest
    /\ sent = 0
    /\ elapsed = 0
    /\ fault = NoFault
    /\ resp = NoResponse
    /\ ret = Pending
    /\ result = Pending
    /\ ops = 0
    /\ calls = 0

\* keys of every length up to MaxKeyLen
KeyTexts == {"re_123456789abcdefghijklmnop", "sk_live_ABCDEFGHIJKLMNOPQRST"}
MaskKeyInputs ==
    {Input("mask_key", SubSeq(k, 1, n)) : k \in KeyTexts, n \in 0..MaxKeyLen}

\* resources of type T as the API returns them
SampleItems(T) == {FromJson(T, FullBody).v, FromJson(T, IdNameBody).v}

\* every list of up to MaxItems of them, in either output format
FormatInputs(T) ==
    {Input("format_and_output", [T |-> T, items |-> items, format |-> format]) :
        items \in UNION {[1..n -> SampleItems(T)] : n \in 0..MaxItems},
        format \in {"Table", "Json"}}

\* the fields a row of T shows, in the order of row()
Columns(T) ==
    CASE T = "Email" -> << "id", "to", "subject", "last_event", "created_at" >>
      [] T = "Domain" -> << "id", "name", "status", "region" >>
      [] T = "ApiKey" -> << "id", "name", "created_at" >>
      [] T = "Template" -> << "id", "name", "subject", "created_at" >>

\* A value of T with the optional fields of `set` present and the others
\* absent; every field holds a text of its own.
ItemOf(T, set) ==
    [f \in Range(Columns(T)) |->
        IF f \in {"id", "name"} THEN f \o "-1"
        ELSE IF f \notin set THEN None
        ELSE IF f = "to" THEN Some(<< "a@x.com", "b@y.com" >>)
        ELSE Some(f \o "-v")]

\* every value of T, by which of its optional fields are present
RowInputs(T) ==
    {Input("row", [T |-> T, item |-> ItemOf(T, set)]) :
        set \in SUBSET (Range(Columns(T)) \ {"id", "name"})}

\* what the environment and the config file can hold
EnvKeys == {None, Some("re_env"), Some("")}
EnvProfiles == {None, Some("work")}
Envs == [RESEND_API_KEY : EnvKeys, RESEND_PROFILE : EnvProfiles]
ProfileArgs == {None, Some("work"), Some("other")}
FormatArgs == {None, Some("Table"), Some("Json")}
ConfigFiles ==
    { MissingFile, UnreadableFile, UnparsableFile,
      FileOf({}),
      FileOf({ProfileEntry("default", Some("re_default"))}),
      FileOf({ProfileEntry("work", Some("re_work"))}),
      FileOf({ProfileEntry("default", Some("re_default")),
              ProfileEntry("work", Some("re_work"))}),
      FileOf({ProfileEntry("default", None),
              ProfileEntry("work", Some("re_work"))}) }

\* the config files set_profile and list_profiles can find: those above,
\* and files that hold a profile but no longer load
StoreFiles ==
    ConfigFiles
    \cup { UnreadableHolding({ProfileEntry("work", Some("re_work"))}),
           UnparsableHolding({ProfileEntry("work", Some("re_work"))}),
           UnparsableHolding({ProfileEntry("default", Some("re_default")),
                              ProfileEntry("work", Some("re_work"))}) }

DefaultInputs == {Input("default", "Config")}
ListInputs == {Input("list_profiles", file) : file \in StoreFiles}
SetInputs ==
    {Input("set_profile", [name |-> name, api_key |-> key, file |-> file, disk |-> disk]) :
        name \in {"default", "work", "staging"}, key \in {"re_new", "re_work"},
        file \in StoreFiles, disk \in Disks}

LoadInputs ==
    {Input("load", [profile |-> profile, format |-> format, env |-> env, file |-> file]) :
        profile \in ProfileArgs, format \in FormatArgs, env \in Envs,
        file \in ConfigFiles}

FnInit ==
    /\ Quiet
    /\ proc = NoProc
    /\ \/ \E T \in RequestTypes : fn \in ToJsonInputs(T)
       \/ fn \in MaskKeyInputs
       \/ \E T \in TabularTypes : fn \in FormatInputs(T)
       \/ fn \in LoadInputs
       \/ \E T \in TabularTypes : fn \in RowInputs(T)
       \/ fn \in DefaultInputs
       \/ fn \in ListInputs
       \/ fn \in SetInputs

\* the function returns `out`
Applied(out) ==
    /\ fn' = [stage |-> "out", f |-> fn.f, in |-> fn.in, out |-> out]
    /\ UNCHANGED <<client, pc, op, req, sent, elapsed, fault, resp, ret, result,
                   ops, calls, proc>>

\* .json(body) serializes a request value
ApplyToJson ==
    /\ fn.stage = "in"
    /\ fn.f = "to_json"
    /\ Applied(ToJson(fn.in.T, fn.in.v))

\* Config::mask_key(key)
ApplyMaskKey ==
    /\ fn.stage = "in"
    /\ fn.f = "mask_key"
    /\ Applied(MaskKey(fn.in))

\* format_and_output(data, format, ..) formats the list
ApplyFormat ==
    /\ fn.stage = "in"
    /\ fn.f = "format_and_output"
    /\ Applied(Formatted(fn.in.T, fn.in.items, fn.in.format))

\* Config::load(profile, format, output, verbose)
ApplyLoad ==
    /\ fn.stage = "in"
    /\ fn.f = "load"
    /\ Applied(ConfigLoad(fn.in.profile, fn.in.format, None, FALSE,
                          fn.in.env, fn.in.file))

\* T::headers() and item.row()
ApplyRow ==
    /\ fn.stage = "in"
    /\ fn.f = "row"
    /\ Applied([headers |-> Headers(fn.in.T), row |-> Row(fn.in.T, fn.in.item)])

\* Config::default()
ApplyDefault ==
    /\ fn.stage = "in"
    /\ fn.f = "default"
    /\ Applied(ConfigDefault)

\* Config::list_profiles()
ApplyListProfiles ==
    /\ fn.stage = "in"
    /\ fn.f = "list_profiles"
    /\ Applied(ListProfiles(fn.in))

\* Config::set_profile(name, api_key)
ApplySetProfile ==
    /\ fn.stage = "in"
    /\ fn.f = "set_profile"
    /\ Applied(SetProfile(fn.in.name, fn.in.api_key, fn.in.file, fn.in.disk))

FnNext ==
    \/ ApplyLoad
    \/ ApplyDefault
    \/ ApplyListProfiles
    \/ ApplySetProfile
    \/ ApplyRow
    \/ ApplyToJson
    \/ ApplyMaskKey
    \/ ApplyFormat

FnSpec == FnInit /\ [][FnNext]_vars

----------------------------------------------------------------------------
(* The command layer: one process running one resource command *)

\* the emails, domains, api-keys and templates commands, each named by the
\* client operation it performs
Commands == {o \in Operations : o.name # "test_connection"}

\* CommonArgs::format
FormatOf(json) == IF json THEN "Json" ELSE "Table"

\* the element type of a list envelope
ElementType(T) ==
    CASE T = "EmailsResponse" -> "Email"
      [] T = "DomainsResponse" -> "Domain"
      [] T = "ApiKeysResponse" -> "ApiKey"
      [] T = "TemplatesResponse" -> "Template"

\* a line of program-written text
Line(str) == << Lit(str) >>

\* output_error: the line serde_json::to_string writes for
\* json!({"error": error, "message": message})
OutputError(error, message) ==
    << P("{"), S("error"), P(":"), S(error), P(","),
       S("message"), P(":"), S(message), P("}") >>

\* What the runtime writes when main returns Err(e): "Error: " and the
\* Debug form of the anyhow error, which is its message followed by the
\* chain of causes. The --json flag plays no part in it.
ErrorReport(e) ==
    << Lit("Error: ") >>
      \o (IF e.kind = "ParseFailure"
          THEN << e.context, Lit("\n\nCaused by:\n    "),
                  Lit("error decoding response body") >>
          ELSE Display(e))

\* the lines println! writes for the DNS records of a created domain
RecordLines(records) ==
    IF ~records.some THEN << >>
    ELSE << "", "DNS Records to add:" >>
           \o [i \in 1..Len(records.v) |->
                 "  " \o records.v[i].record \o " " \o records.v[i].name
                      \o " -> " \o records.v[i].value]

\* What command o prints on standard output once its operation returned v
\* (the list and get commands write through write_output instead).
Printed(o, json, v) ==
    CASE o.name = "send_email" ->
           IF json THEN << FormatJsonSingle("SendEmailResponse", v) >>
           ELSE << "Email sent successfully!", "ID: " \o v.id >>
      [] o.name = "cancel_email" ->
           IF json THEN << FormatJsonSingle("Email", v) >>
           ELSE << "Email cancelled successfully!", "ID: " \o v.id >>
      [] o.name = "update_email" ->
           IF json THEN << FormatJsonSingle("Email", v) >>
           ELSE << "Email updated successfully!", "ID: " \o v.id >>
      [] o.name = "create_domain" ->
           IF json THEN << FormatJsonSingle("Domain", v) >>
           ELSE << "Domain created successfully!", "ID: " \o v.id,
                   "Name: " \o v.name >> \o RecordLines(v.records)
      [] o.name = "verify_domain" ->
           IF json THEN << FormatJsonSingle("Domain", v) >>
           ELSE << "Verification initiated!", "ID: " \o v.id,
                   "Status: " \o (IF v.status.some THEN v.status.v ELSE "pending") >>
      [] o.name = "update_domain" ->
           IF json THEN << FormatJsonSingle("Domain", v) >>
           ELSE << "Domain updated successfully!", "ID: " \o v.id >>
      [] o.name = "delete_domain" ->
           IF json THEN << >> ELSE << "Domain deleted successfully!" >>
      [] o.name = "create_api_key" ->
           IF json THEN << FormatJsonSingle("ApiKey", v) >>
           ELSE << "API key created successfully!", "ID: " \o v.id,
                   "Name: " \o v.name >>
                  \o (IF v.token.some
                      THEN << "", "Token: " \o v.token.v, "",
                              "Save this token - it won't be shown again!" >>
                      ELSE << >>)
      [] o.name = "delete_api_key" ->
           IF json THEN << >> ELSE << "API key deleted successfully!" >>
      [] o.name = "create_template" ->
           IF json THEN << FormatJsonSingle("Template", v) >>
           ELSE << "Template created successfully!", "ID: " \o v.id,
                   "Name: " \o v.name >>
      [] o.name = "update_template" ->
           IF json THEN << FormatJsonSingle("Template", v) >>
           ELSE << "Template updated successfully!", "ID: " \o v.id >>
      [] o.name = "delete_template" ->
           IF json THEN << >> ELSE << "Template deleted successfully!" >>

WrittenCommands ==
    ListOperations \cup {"get_email", "get_domain", "get_template"}

\* the text a list or get command hands to write_output
Written(o, format, v) ==
    IF o.name \in ListOperations
    THEN Formatted(ElementType(o.T), v, format)
    ELSE FormattedSingle(o.T, v, format)

NoConfig == [profile |-> ""]

\* the process before main has done anything; exit is the status the
\* process ended with, None while it runs
Started(cmd, json) ==
    [stage |-> "start", cmd |-> cmd, json |-> json, config |-> NoConfig,
     stdout |-> << >>, stderr |-> << >>, file |-> None, exit |-> None,
     clients |-> 0]

\* what the command line, the environment and the config file hold when a
\* command runs
CmdProfileArgs == {None, Some("work")}
CmdOutputArgs == {None, Some("out.txt")}
CmdEnvs == [RESEND_API_KEY : {None, Some("re_env")}, RESEND_PROFILE : {None}]
CmdFiles == {MissingFile, FileOf({ProfileEntry("default", Some("re_default"))})}

CmdInit ==
    /\ Quiet
    /\ fn = NoFn
    /\ proc \in {Started(cmd, json) : cmd \in Commands, json \in BOOLEAN}

clientVars == <<client, pc, op, req, sent, elapsed, fault, resp, ret, result, ops, calls>>

\* build_config(common): Config::load with the command's arguments
BuildConfig(profile, output, env, file) ==
    /\ proc.stage = "start"
    /\ proc' = [proc EXCEPT
                  !.stage = "loaded",
                  !.config = ConfigLoad(profile, Some(FormatOf(proc.json)), output,
                                        FALSE, env, file)]
    /\ UNCHANGED <<clientVars, fn>>

\* require_valid_config(&config): without credentials the error is written
\* and the process exits with status 1
RequireValidConfig ==
    /\ proc.stage = "loaded"
    /\ proc' = IF ~IsValid(proc.config)
               THEN [proc EXCEPT
                       !.stderr = Append(@, OutputError("missing_credentials",
                           "Missing API key. Run 'resend config setup' or set RESEND_API_KEY.")),
                       !.exit = Some(1),
                       !.stage = "exited"]
               ELSE [proc EXCEPT !.stage = "valid"]
    /\ UNCHANGED <<clientVars, fn>>

\* ResendClient::new(config.api_key.as_ref().unwrap()); unwrap panics on None
Construct ==
    /\ proc.stage = "valid"
    /\ IF proc.config.api_key.some
       THEN /\ client' = NewClient(proc.config.api_key.v)
            /\ proc' = [proc EXCEPT !.stage = "client", !.clients = @ + 1]
       ELSE /\ client' = client
            /\ proc' = [proc EXCEPT
                          !.stderr = Append(@, Line("called Option::unwrap() on a None value")),
                          !.exit = Some(101),
                          !.stage = "exited"]
    /\ UNCHANGED <<pc, op, req, sent, elapsed, fault, resp, ret, result, ops, calls, fn>>

\* the command calls its operation on the client, with a body built from
\* its arguments
Operate ==
    /\ proc.stage = "client"
    /\ result = Pending
    /\ \E json \in Args(proc.cmd) : Call(proc.cmd, json)

\* The operation has returned. An error leaves execute through `?` and
\* main returns it; otherwise the command writes its output and main
\* returns Ok(()). fs::write of the --output file may fail (written = FALSE).
Exit(written) ==
    /\ proc.stage = "client"
    /\ pc = "idle"
    /\ result # Pending
    /\ LET toFile == /\ result.kind = "Ok"
                     /\ proc.cmd.name \in WrittenCommands
                     /\ proc.config.output.some
       IN
       /\ written \/ toFile
       /\ proc' =
            IF result.kind # "Ok"
            THEN [proc EXCEPT
                    !.stderr = Append(@, ErrorReport(result)),
                    !.exit = Some(1),
                    !.stage = "exited"]
            ELSE IF proc.cmd.name \notin WrittenCommands
            THEN [proc EXCEPT
                    !.stdout = @ \o [i \in 1..Len(Printed(proc.cmd, proc.json, result.value)) |->
                                       Line(Printed(proc.cmd, proc.json, result.value)[i])],
                    !.exit = Some(0),
                    !.stage = "exited"]
            ELSE IF ~toFile
            THEN [proc EXCEPT
                    !.stdout = Append(@, Line(Written(proc.cmd, proc.config.format, result.value))),
                    !.exit = Some(0),
                    !.stage = "exited"]
            ELSE IF written
            THEN [proc EXCEPT
                    !.file = Some(Written(proc.cmd, proc.config.format, result.value)),
                    !.exit = Some(0),
                    !.stage = "exited"]
            ELSE [proc EXCEPT
                    !.stderr = Append(@, << Lit("Error: "), Lit("failed to write file") >>),
                    !.exit = Some(1),
                    !.stage = "exited"]
    /\ UNCHANGED <<clientVars, fn>>

CmdNext ==
    \/ \E profile \in CmdProfileArgs, output \in CmdOutputArgs,
          env \in CmdEnvs, file \in CmdFiles :
            BuildConfig(profile, output, env, file)
    \/ RequireValidConfig
    \/ Construct
    \/ Operate
    \/ Send
    \/ Await
    \/ Return
    \/ \E written \in BOOLEAN : Exit(written)

CmdSpec == CmdInit /\ [][CmdNext]_vars

----------------------------------------------------------------------------
(* The config command: setup, show, list *)

\* where config_path() puts the file
CONFIG_PATH == "/home/user/.config/resend/config.yml"

\* ConfigCommands: Setup {profile}, Show {profile: Option}, List
ConfigCommands ==
    {[name |-> "setup", profile |-> p] : p \in {"default", "work"}}
    \cup {[name |-> "show", arg |-> a] : a \in {None, Some("work")}}
    \cup {[name |-> "list"]}

\* the config file a config command finds
ConfigStores ==
    { MissingFile,
      FileOf({ProfileEntry("default", Some("re_default")),
              ProfileEntry("work", Some("re_work"))}),
      UnparsableHolding({ProfileEntry("work", Some("re_work"))}) }

\* what is typed at the API Key prompt; None when the prompt cannot read
EnteredKeys == {None, Some(""), Some("re_abc"), Some("re_123456789")}

\* the environment of config show
ShowEnvs == [RESEND_API_KEY : {None, Some("re_env_0123456789")}, RESEND_PROFILE : {None}]

\* The process about to run a config command: store is the config file on
\* disk, before is that file as the process found it.
ConfigStarted(cmd, store, disk) ==
    [stage |-> "config", cmd |-> cmd, json |-> FALSE, config |-> NoConfig,
     stdout |-> << >>, stderr |-> << >>, file |-> None, exit |-> None,
     clients |-> 0, entered |-> None, before |-> store, store |-> store,
     disk |-> disk]

ConfigInit ==
    /\ Quiet
    /\ fn = NoFn
    /\ proc \in {ConfigStarted(cmd, store, disk) :
                   cmd \in ConfigCommands, store \in ConfigStores, disk \in Disks}

\* api_key.is_empty()
KeyIsEmpty(key) == key = ""

\* As ConnectionOk, were every answer of test_connection taken for Ok.
ConnectionAlwaysOk(r) == TRUE

\* match client.test_connection().await: the Ok arm
ConnectionOk(r) == r.kind = "Ok"

\* "{}" of an anyhow error: its outermost message
Shown(e) == IF e.kind = "ParseFailure" THEN << e.context >> ELSE Display(e)

\* the operation test_connection of the client
TestConnectionOp == CHOOSE o \in Operations : o.name = "test_connection"

\* setup_config up to test_connection: the greeting, the prompt, the check
\* for an empty key, and the client made from the key
EnterKey(key) ==
    /\ proc.stage = "config"
    /\ proc.cmd.name = "setup"
    /\ LET greeted ==
             proc.stdout \o << Line("Setting up profile: " \o proc.cmd.profile),
                               Line("") >>
       IN
       IF ~key.some
       THEN /\ proc' = [proc EXCEPT
                          !.stdout = greeted,
                          !.stderr = Append(@, << Lit("Error: "),
                                                  Lit("IO error: not a terminal") >>),
                          !.exit = Some(1),
                          !.stage = "exited"]
            /\ client' = client
       ELSE IF KeyIsEmpty(key.v)
       THEN /\ proc' = [proc EXCEPT
                          !.entered = key,
                          !.stdout = greeted,
                          !.stderr = Append(@, Line("Error: API key cannot be empty")),
                          !.exit = Some(1),
                          !.stage = "exited"]
            /\ client' = client
       ELSE /\ proc' = [proc EXCEPT
                          !.entered = key,
                          !.stdout = greeted \o << Line(""), Line("Testing connection...") >>,
                          !.clients = @ + 1,
                          !.stage = "testing"]
            /\ client' = NewClient(key.v)
    /\ UNCHANGED <<pc, op, req, sent, elapsed, fault, resp, ret, result, ops, calls, fn>>

\* client.test_connection() is called
TestConnection ==
    /\ proc.stage = "testing"
    /\ result = Pending
    /\ Call(TestConnectionOp, NoJson)

\* setup_config once test_connection has returned: on an error the message
\* and exit(1); on Ok set_profile, whose error leaves through `?`
Persist ==
    /\ proc.stage = "testing"
    /\ pc = "idle"
    /\ result # Pending
    /\ proc' =
         IF ~ConnectionOk(result)
         THEN [proc EXCEPT
                 !.stderr = Append(@, << Lit("Connection failed: ") >> \o Shown(result)),
                 !.exit = Some(1),
                 !.stage = "exited"]
         ELSE LET saved == SetProfile(proc.cmd.profile, proc.entered.v,
                                      proc.store, proc.disk)
              IN IF saved.ok
                 THEN [proc EXCEPT
                         !.stdout = @ \o << Line("Connection successful!"), Line(""),
                                            Line("Configuration saved to " \o CONFIG_PATH) >>,
                         !.store = saved.file,
                         !.exit = Some(0),
                         !.stage = "exited"]
                 ELSE [proc EXCEPT
                         !.stdout = Append(@, Line("Connection successful!")),
                         !.stderr = Append(@, << Lit("Error: "), Lit(saved.context) >>),
                         !.exit = Some(1),
                         !.stage = "exited"]
    /\ UNCHANGED <<clientVars, fn>>

\* show_config
ShowConfig(env) ==
    /\ proc.stage = "config"
    /\ proc.cmd.name = "show"
    /\ LET config == ConfigLoad(proc.cmd.arg, None, None, FALSE, env, proc.store)
       IN proc' = [proc EXCEPT
                     !.config = config,
                     !.stdout = @ \o << Line("Profile: " \o config.profile),
                                        Line("API Key: "
                                             \o (IF config.api_key.some
                                                  THEN MaskKey(config.api_key.v)
                                                  ELSE "(not set)")) >>
                                   \o (IF proc.disk # "no_path"
                                       THEN << Line("Config file: " \o CONFIG_PATH) >>
                                       ELSE << >>),
                     !.exit = Some(0),
                     !.stage = "exited"]
    /\ UNCHANGED <<clientVars, fn>>

\* list_profiles; `order` is the order the map yields the names in
ListProfilesCommand(order) ==
    /\ proc.stage = "config"
    /\ proc.cmd.name = "list"
    /\ LET profiles == ListProfiles(proc.store)
       IN
       IF ~profiles.ok
       THEN /\ order = << >>
            /\ proc' = [proc EXCEPT
                          !.stderr = Append(@, << Lit("Error: "), Lit(profiles.context) >>),
                          !.exit = Some(1),
                          !.stage = "exited"]
       ELSE /\ Len(order) = Cardinality(profiles.v)
            /\ Range(order) = profiles.v
            /\ proc' = [proc EXCEPT
                          !.stdout =
                             IF Len(order) = 0
                             THEN @ \o << Line("No profiles configured."),
                                          Line("Run 'resend config setup' to create one.") >>
                             ELSE @ \o << Line("Configured profiles:") >>
                                    \o [i \in 1..Len(order) |-> Line("  - " \o order[i])],
                          !.exit = Some(0),
                          !.stage = "exited"]
    /\ UNCHANGED <<clientVars, fn>>

\* the orders two names can come in
Orders == UNION {[1..n -> {"default", "work"}] : n \in 0..2}

ConfigNext ==
    \/ \E key \in EnteredKeys : EnterKey(key)
    \/ TestConnection
    \/ Send
    \/ Await
    \/ Return
    \/ Persist
    \/ \E env \in ShowEnvs : ShowConfig(env)
    \/ \E order \in Orders : ListProfilesCommand(order)

ConfigSpec == ConfigInit /\ [][ConfigNext]_vars

\* any command of the program: a resource command or a config command
ProgramSpec == (CmdInit \/ ConfigInit) /\ [][CmdNext \/ ConfigNext]_vars

----------------------------------------------------------------------------
(* Properties of the requests the verbs build *)

Built == req.method # "none"

\* C11: every request, of any verb and any operation, test_connection
\* included, carries the Authorization header "Bearer " followed by the key
\* the client was constructed with, and is addressed to the base URL
\* followed by a path that begins with '/'.
C11_BearerAndBaseUrl ==
    Built =>
        /\ req.method \in {"GET", "POST", "PATCH", "DELETE"}
        /\ req.method = op.verb
        /\ req.authorization = "Bearer " \o client.api_key
        /\ Len(req.url) > Len(BASE_URL)
        /\ SubSeq(req.url, 1, Len(BASE_URL)) = BASE_URL
        /\ SubSeq(req.url, Len(BASE_URL) + 1, Len(BASE_URL) + 1) = "/"
        /\ SubSeq(req.url, Len(BASE_URL) + 1, Len(req.url)) = op.path

\* the keys of the members of JSON object text t, in the order written
KeysOf(t) ==
    LET m == ParseJson(t).v.m IN [i \in 1..Len(m) |-> m[i].key]

\* text t is one JSON object without a null member and without a key twice
PlainObject(t) ==
    /\ ParseJson(t).ok
    /\ ParseJson(t).v.j = "obj"
    /\ \A i \in 1..Len(ParseJson(t).v.m) : ParseJson(t).v.m[i].val.j # "null"
    /\ Cardinality(Range(KeysOf(t))) = Len(KeysOf(t))

\* the optional fields of request value d that are set
SetNames(d) == {n \in OptionalNames(d.T) : d.v[n].some}

\* C12: for every request type and every combination of set and unset
\* optional fields, the serialized body is an object whose keys are exactly
\* the required fields and the optional fields that are set; an unset
\* optional field is absent, and no member is null.
C12_BodyKeysAreRequiredAndSet ==
    (fn.stage = "out" /\ fn.f = "to_json") =>
        /\ PlainObject(fn.out)
        /\ Range(KeysOf(fn.out))
             = (ReqFieldNames(fn.in.T) \ OptionalNames(fn.in.T)) \cup SetNames(fn.in)
        /\ \A n \in OptionalNames(fn.in.T) \ SetNames(fn.in) :
              /\ n \notin Range(KeysOf(fn.out))
              /\ S(n) \notin Range(fn.out)

C12_Witness ==
    /\ fn.stage = "out"
    /\ fn.f = "to_json"
    /\ fn.in.T = "SendEmailRequest"
    /\ SetNames(fn.in) = {"html", "cc"}
    /\ KeysOf(fn.out) = << "from", "to", "subject", "html", "cc" >>

\* C13: send_email with from, to and subject and no optional field set
\* issues POST /emails with a body whose keys are exactly from, to, subject;
\* a 200 response with body {"id": x} makes it return success with id x.
C13_MinimalSendEmail ==
    (Built /\ op.name = "send_email" /\ SetNames(req.json) = {}) =>
        /\ req.method = "POST"
        /\ req.url = "https://api.resend.com/emails"
        /\ PlainObject(req.body)
        /\ KeysOf(req.body) = << "from", "to", "subject" >>
        /\ (pc = "done" /\ resp.status = 200 /\ resp.readable) =>
              /\ (resp.body = IdBody) => (result = OkOf([id |-> "e1"]))
              /\ (resp.body = IdNameBody) => (result = OkOf([id |-> "d1"]))

C13_Witness ==
    /\ pc = "done"
    /\ op.name = "send_email"
    /\ req.json.v.html = None
    /\ req.json.v.scheduled_at = None
    /\ req.body
         = << P("{"), S("from"), P(":"), S("a@x.com"), P(","),
              S("to"), P(":"), P("["), S("b@y.com"), P("]"), P(","),
              S("subject"), P(":"), S("Hi"), P("}") >>
    /\ resp = [status |-> 200, body |-> IdBody, readable |-> TRUE]
    /\ result.kind = "Ok"
    /\ result.value.id = "e1"

C11_Witness ==
    /\ pc = "waiting"
    /\ sent = 1
    /\ op.name = "delete_api_key"
    /\ client.api_key = "re_abc"
    /\ req.method = "DELETE"
    /\ req.authorization = "Bearer re_abc"
    /\ req.url = "https://api.resend.com/api-keys/id-1"

----------------------------------------------------------------------------
(* Properties of what the operations return *)

\* a list operation has been answered 200 and has read the body
ListAnswered ==
    /\ pc = "done"
    /\ op.name \in ListOperations
    /\ resp.status = 200
    /\ resp.readable

\* the body is a JSON object
ObjectBody == ParseJson(resp.body).ok /\ ParseJson(resp.body).v.j = "obj"

\* the "id" of each element of a decoded list, in order
IdsOf(list) == [i \in 1..Len(list) |-> list[i].id]

\* C14: a list operation answered 200 with {"data": [a, b, ...]} returns
\* the elements in the order of the body and as many of them; with
\* {"data": []} it returns the empty sequence; with an object body that has
\* no data member it fails to decode and returns no sequence at all.
C14_ListUnwrapsData ==
    ListAnswered =>
        /\ (resp.body = EmptyDataBody) => (result = OkOf(<< >>))
        /\ (resp.body = TwoDataBody) =>
              /\ result.kind = "Ok"
              /\ Len(result.value) = 2
              /\ IdsOf(result.value) = << "d2", "d1" >>
        /\ (resp.body = MixedDataBody /\ op.name = "list_emails") =>
              /\ result.kind = "Ok"
              /\ IdsOf(result.value) = << "d1", "e1" >>
        /\ (ObjectBody /\ "data" \notin Range(KeysOf(resp.body))) =>
              /\ result.kind = "ParseFailure"
              /\ result.kind # "Ok"

C14_Witness ==
    /\ ListAnswered
    /\ op.name = "list_domains"
    /\ resp.body = TwoDataBody
    /\ result.kind = "Ok"
    /\ result.value[1].name = "y.com"
    /\ result.value[2].name = "x.com"

C14_WitnessNoData ==
    /\ ListAnswered
    /\ resp.body = EmptyObjectBody
    /\ result.kind = "ParseFailure"

\* C17: test_connection issues one GET /domains; it returns true when the
\* get succeeds and the get's own error when it fails, and never false.
C17_TestConnection ==
    (Built /\ op.name = "test_connection") =>
        /\ req.method = "GET"
        /\ req.url = "https://api.resend.com/domains"
        /\ sent <= 1
        /\ (pc = "done") =>
              /\ sent = 1
              /\ Answered => (ret = HandleResponse("DomainsResponse", resp))
              /\ Failed => (ret = MapSendError(fault))
              /\ (ret.kind = "Ok") => (result = OkOf(TRUE))
              /\ (ret.kind # "Ok") => (result = ret)
              /\ (result.kind = "Ok") => (result.value = TRUE)

C17_Witness ==
    /\ pc = "done"
    /\ op.name = "test_connection"
    /\ resp.status = 401
    /\ result = [kind |-> "AuthenticationError"]

C17_WitnessTrue ==
    /\ pc = "done"
    /\ op.name = "test_connection"
    /\ resp.status = 200
    /\ resp.body = EmptyDataBody
    /\ result = OkOf(TRUE)

----------------------------------------------------------------------------
(* Properties of the output *)

FormattedAs(format) ==
    fn.stage = "out" /\ fn.f = "format_and_output" /\ fn.in.format = format

\* C15: an empty list of any resource type is rendered as the text
\* "No results found." in table format, with no header and no separator
\* line, and as "[]" in JSON format.
C15_EmptyList ==
    /\ (FormattedAs("Table") /\ Len(fn.in.items) = 0) =>
          fn.out = "No results found."
    /\ (FormattedAs("Json") /\ Len(fn.in.items) = 0) =>
          fn.out = "[]"

C15_Witness ==
    /\ FormattedAs("Table")
    /\ fn.in.T = "ApiKey"
    /\ fn.in.items = << >>
    /\ fn.out = "No results found."

C15_WitnessJson ==
    /\ FormattedAs("Json")
    /\ fn.in.T = "Domain"
    /\ fn.in.items = << >>
    /\ fn.out = "[]"

Masked == fn.stage = "out" /\ fn.f = "mask_key"

\* C16: mask_key of a key of at most 8 characters, the empty key included,
\* is one asterisk per character; of a longer key it is the first 8
\* characters followed by exactly 8 asterisks whatever the length, so no
\* character past the 8th is shown.
C16_MaskKey ==
    Masked =>
        /\ (Len(fn.in) <= 8) =>
              /\ Len(fn.out) = Len(fn.in)
              /\ \A i \in 1..Len(fn.out) : SubSeq(fn.out, i, i) = "*"
        /\ (Len(fn.in) > 8) =>
              /\ Len(fn.out) = 16
              /\ SubSeq(fn.out, 1, 8) = SubSeq(fn.in, 1, 8)
              /\ SubSeq(fn.out, 9, 16) = "********"

C16_Witness ==
    /\ Masked
    /\ fn.in = "re_123456789"
    /\ fn.out = "re_12345********"

C16_WitnessShort ==
    /\ Masked
    /\ fn.in = "sk_live_"
    /\ fn.out = "********"

----------------------------------------------------------------------------
(* Properties of the configuration *)

Loaded == fn.stage = "out" /\ fn.f = "load"

\* the profile load selects for its input
SelectedProfile ==
    IF fn.in.profile.some THEN fn.in.profile.v
    ELSE IF fn.in.env.RESEND_PROFILE.some THEN fn.in.env.RESEND_PROFILE.v
    ELSE "default"

\* the keys the config file stores under profile `name`
StoredKeys(name) ==
    IF fn.in.file.kind # "file" THEN {}
    ELSE {e.api_key.v : e \in {x \in fn.in.file.profiles : x.name = name /\ x.api_key.some}}

\* C19: Config::load takes the api key from RESEND_API_KEY when the
\* environment gives it; otherwise from the selected profile of the config
\* file; otherwise the Config it returns has no key. A key stored under a
\* profile that is not selected is never the result.
C19_ApiKeyResolution ==
    Loaded =>
        /\ fn.in.env.RESEND_API_KEY.some =>
              fn.out.api_key = fn.in.env.RESEND_API_KEY
        /\ (~fn.in.env.RESEND_API_KEY.some /\ StoredKeys(SelectedProfile) # {}) =>
              /\ fn.out.api_key.some
              /\ fn.out.api_key.v \in StoredKeys(SelectedProfile)
        /\ (~fn.in.env.RESEND_API_KEY.some /\ StoredKeys(SelectedProfile) = {}) =>
              fn.out.api_key = None
        /\ fn.out.api_key.some =>
              \/ fn.out.api_key = fn.in.env.RESEND_API_KEY
              \/ fn.out.api_key.v \in StoredKeys(SelectedProfile)

C19_Witness ==
    /\ Loaded
    /\ fn.in.env = [RESEND_API_KEY |-> None, RESEND_PROFILE |-> Some("work")]
    /\ fn.in.profile = None
    /\ fn.in.file.kind = "file"
    /\ Cardinality(fn.in.file.profiles) = 2
    /\ StoredKeys("default") = {"re_default"}
    /\ fn.out.api_key = Some("re_work")

C19_WitnessNoKey ==
    /\ Loaded
    /\ fn.in.env.RESEND_API_KEY = None
    /\ fn.in.profile = Some("other")
    /\ StoredKeys("default") = {"re_default"}
    /\ StoredKeys("work") = {"re_work"}
    /\ fn.out.api_key = None

----------------------------------------------------------------------------
(* Properties of the commands *)

ConfigBuilt == proc.stage \in {"loaded", "valid", "client", "exited"}

HasKey == proc.config.api_key.some

\* the line output_error writes for missing credentials
MissingCredentialsLine ==
    << P("{"), S("error"), P(":"), S("missing_credentials"), P(","),
       S("message"), P(":"),
       S("Missing API key. Run 'resend config setup' or set RESEND_API_KEY."),
       P("}") >>

\* C18: in every resource command the credential check comes before the
\* client: the check lets the command on exactly when the resolved key is
\* present; with no key the command writes the missing_credentials message,
\* exits with status 1, constructs no client and sends no request.
C18_CredentialCheckFirst ==
    /\ (proc.stage \in {"valid", "client"}) => HasKey
    /\ (proc.clients > 0 \/ Built \/ calls > 0) =>
          (proc.stage \in {"client", "exited"} /\ HasKey)
    /\ (ConfigBuilt /\ ~HasKey) =>
          /\ proc.stage \in {"loaded", "exited"}
          /\ proc.clients = 0
          /\ ~Built
          /\ calls = 0
    /\ (proc.stage = "exited" /\ ~HasKey) =>
          /\ proc.exit = Some(1)
          /\ proc.stderr = << MissingCredentialsLine >>
          /\ proc.stdout = << >>

C18_Witness ==
    /\ proc.stage = "exited"
    /\ proc.cmd.name = "send_email"
    /\ proc.config.api_key = None
    /\ proc.config.profile = "work"
    /\ proc.exit = Some(1)
    /\ proc.stderr = << MissingCredentialsLine >>
    /\ proc.clients = 0
    /\ calls = 0

\* the command's operation failed and the process is over
OperationFailed ==
    /\ proc.stage = "exited"
    /\ proc.clients > 0
    /\ result.kind \notin {"Ok", "Pending"}

\* text t tells of error e
Describes(t, e) ==
    IF e.kind = "ParseFailure" THEN e.context \in Range(t)
    ELSE Range(Display(e)) \subseteq Range(t)

\* text t is one JSON object
JsonStructured(t) == ParseJson(t).ok /\ ParseJson(t).v.j = "obj"

\* What holds of a failed operation whatever the flags: status 1 and one
\* line on standard error, "Error: " followed by the error's message.
FailureReportedPlainly ==
    OperationFailed =>
        /\ proc.exit = Some(1)
        /\ proc.stdout = << >>
        /\ Len(proc.stderr) = 1
        /\ proc.stderr[1][1] = Lit("Error: ")
        /\ Describes(proc.stderr[1], result)
        /\ ~JsonStructured(proc.stderr[1])

\* C20: when the client operation of a command fails, the process ends
\* with a non-zero status and writes a message that describes the failure;
\* under --json that message is JSON-structured.
C20_FailureReported ==
    OperationFailed =>
        /\ proc.exit.some
        /\ proc.exit.v # 0
        /\ Len(proc.stderr) > 0
        /\ Describes(proc.stderr[Len(proc.stderr)], result)
        /\ proc.json => JsonStructured(proc.stderr[Len(proc.stderr)])

C20_Witness ==
    /\ OperationFailed
    /\ proc.json
    /\ proc.cmd.name = "delete_domain"
    /\ resp.status = 401
    /\ proc.exit = Some(1)
    /\ proc.stderr
         = << << Lit("Error: "), Lit("Authentication failed. Check your API key.") >> >>

----------------------------------------------------------------------------
(* Properties of the resource operations *)

\* A resource operation has been called (test_connection is not one).
ResourceCalled == op # NoOp /\ op.name # "test_connection"

\* the verb and path each resource operation is to issue, for resource id
BoundTo(id) ==
    { << "send_email", "POST", "/emails" >>,
      << "get_email", "GET", "/emails/" \o id >>,
      << "list_emails", "GET", "/emails" >>,
      << "cancel_email", "POST", "/emails/" \o id \o "/cancel" >>,
      << "update_email", "PATCH", "/emails/" \o id >>,
      << "create_domain", "POST", "/domains" >>,
      << "list_domains", "GET", "/domains" >>,
      << "get_domain", "GET", "/domains/" \o id >>,
      << "verify_domain", "POST", "/domains/" \o id \o "/verify" >>,
      << "update_domain", "PATCH", "/domains/" \o id >>,
      << "delete_domain", "DELETE", "/domains/" \o id >>,
      << "create_api_key", "POST", "/api-keys" >>,
      << "list_api_keys", "GET", "/api-keys" >>,
      << "delete_api_key", "DELETE", "/api-keys/" \o id >>,
      << "create_template", "POST", "/templates" >>,
      << "list_templates", "GET", "/templates" >>,
      << "get_template", "GET", "/templates/" \o id >>,
      << "update_template", "PATCH", "/templates/" \o id >>,
      << "delete_template", "DELETE", "/templates/" \o id >> }

\* The request of the operation is the one bound to it: its verb, its
\* path under the base URL, {} as the body of cancel_email and
\* verify_domain, no body on GET and DELETE, and it is sent at most once.
IssuesItsBinding ==
    ResourceCalled =>
        /\ \E id \in Ids :
              << op.name, req.method, req.url >>
                 \in { << b[1], b[2], "https://api.resend.com" \o b[3] >> :
                          b \in BoundTo(id) }
        /\ (op.name \in {"cancel_email", "verify_domain"})
              => (req.body = << P("{"), P("}") >>)
        /\ (req.method \in {"GET", "DELETE"}) => (req.body = << >>)
        /\ sent <= 1

\* the four operations that answer a sequence
Lists == {"list_emails", "list_domains", "list_api_keys", "list_templates"}

\* C25 (amended): each resource operation issues exactly the verb and path
\* bound to it, once; its result is the result of its verb -- any error
\* unchanged, and a success unchanged except that the four list operations
\* return the data sequence of the envelope their verb decoded.
C25_BindingAndResult ==
    /\ IssuesItsBinding
    /\ (ResourceCalled /\ pc = "done") =>
          /\ (ret.kind # "Ok") => (result = ret)
          /\ (ret.kind = "Ok" /\ op.name \notin Lists) => (result = ret)
          /\ (ret.kind = "Ok" /\ op.name \in Lists)
                => (result = [kind |-> "Ok", value |-> ret.value.data])

\* C25 as stated: each resource operation issues the verb and path bound
\* to it and its result is exactly the result of its verb.
C25_ResultIsVerbResult ==
    /\ IssuesItsBinding
    /\ (ResourceCalled /\ pc = "done") => (result = ret)

\* update_domain has answered through PATCH /domains/id-1, and a list
\* operation has handed back the sequence inside the envelope.
C25_WitnessPatch ==
    /\ pc = "done"
    /\ op.name = "update_domain"
    /\ req.method = "PATCH"
    /\ req.url = "https://api.resend.com/domains/id-1"
    /\ result.kind = "Ok"
    /\ ops = 1

\* list_domains answered {"data":[..two domains..]}: the verb holds the
\* envelope and the operation returns the two domains.
C25_Witness ==
    /\ pc = "done"
    /\ op.name = "list_domains"
    /\ req.method = "GET"
    /\ req.url = "https://api.resend.com/domains"
    /\ resp.status = 200
    /\ resp.body = TwoDataBody
    /\ ret.kind = "Ok"
    /\ result.kind = "Ok"
    /\ Len(result.value) = 2

----------------------------------------------------------------------------
(* The client across operations *)

\* what an operation returns for the verb's value v
Returned(o, v) ==
    IF v.kind # "Ok" THEN v
    ELSE IF o.name \in Lists THEN [kind |-> "Ok", value |-> v.value.data]
    ELSE IF o.name = "test_connection" THEN [kind |-> "Ok", value |-> TRUE]
    ELSE v

\* The result of operation o from its own exchange alone: the response r
\* when one arrived, the transport's failure f otherwise.
ResultOf(o, r, f) ==
    Returned(o, IF r.status # 0 THEN VerbResponse(o, r) ELSE MapSendError(f))

\* No step of any operation changes the key or the timeouts of the client.
ClientUnchanged == [][client' = client]_vars

\* The client is as ResendClient::new made it, the request in hand is built
\* from the client and the operation's own arguments, and a finished
\* operation's result is the function ResultOf of its own request's
\* response -- however many operations went before.
OwnExchangeOnly ==
    /\ client = NewClient(client.api_key)
    /\ (op # NoOp) =>
          /\ req.method = op.verb
          /\ req.url = "https://api.resend.com" \o op.path
          /\ req.authorization = "Bearer " \o client.api_key
    /\ (pc = "done") => (result = ResultOf(op, resp, fault))

\* C23: after construction no operation changes the client's api key, base
\* URL or timeouts, and across any sequence of operations the result of
\* each is determined by its own request and the response to it alone.
C23_ClientIsImmutable == ClientUnchanged /\ []OwnExchangeOnly

\* A second operation on the same client has finished; the first one had
\* been answered before it.
C23_Witness ==
    /\ ops = 1
    /\ calls = 2
    /\ pc = "done"
    /\ resp.status = 200
    /\ result.kind = "Ok"

----------------------------------------------------------------------------
(* Properties of the table rows *)

\* the field a column header stands for: the STATUS column of an Email is
\* its last_event, CREATED is created_at
FieldOf(T, header) ==
    CASE header = "ID" -> "id"
      [] header = "TO" -> "to"
      [] header = "NAME" -> "name"
      [] header = "SUBJECT" -> "subject"
      [] header = "STATUS" -> IF T = "Email" THEN "last_event" ELSE "status"
      [] header = "REGION" -> "region"
      [] header = "CREATED" -> "created_at"

\* the value of field f of item as text: an absent field is the empty
\* string, the addresses of `to` are joined by ", "
ValueOf(item, f) ==
    IF f \in {"id", "name"} THEN item[f]
    ELSE IF ~item[f].some THEN ""
    ELSE IF f = "to" THEN Join(item[f].v, ", ")
    ELSE item[f].v

RowMade == fn.stage = "out" /\ fn.f = "row"

\* C22: for Email, Domain, ApiKey and Template and every value of them,
\* row() has as many entries as headers(), the i-th entry is the value of
\* the field the i-th header stands for, and an absent optional field is
\* the empty string, so the row never gets shorter.
C22_RowMatchesHeaders ==
    RowMade =>
        /\ Len(fn.out.row) = Len(fn.out.headers)
        /\ Len(fn.out.row) = Len(Headers(fn.in.T))
        /\ \A i \in 1..Len(fn.out.headers) :
              fn.out.row[i]
                 = ValueOf(fn.in.item, FieldOf(fn.in.T, fn.out.headers[i]))
        /\ \A i \in 1..Len(fn.out.headers) :
              LET f == FieldOf(fn.in.T, fn.out.headers[i])
              IN  (f \notin {"id", "name"} /\ ~fn.in.item[f].some)
                     => (fn.out.row[i] = "")

\* the row of an Email that has a subject and recipients but no last_event
C22_Witness ==
    /\ RowMade
    /\ fn.in.T = "Email"
    /\ fn.in.item.subject = Some("subject-v")
    /\ fn.in.item.last_event = None
    /\ fn.in.item.created_at = None
    /\ fn.out.row = << "id-1", "a@x.com, b@y.com", "subject-v", "", "" >>

----------------------------------------------------------------------------
(* Properties of the table *)

\* the positions of the line breaks of str
Breaks(str) == {i \in 1..Len(str) : SubSeq(str, i, i) = "\n"}

\* str split at its line breaks: line k runs from after the (k-1)-th break
\* to before the k-th
Lines(str) ==
    LET at(k) == IF k = 0 THEN 0
                 ELSE IF k > Cardinality(Breaks(str)) THEN Len(str) + 1
                 ELSE CHOOSE b \in Breaks(str) :
                         Cardinality({x \in Breaks(str) : x < b}) = k - 1
    IN  [k \in 1..(Cardinality(Breaks(str)) + 1) |->
            SubSeq(str, at(k - 1) + 1, at(k) - 1)]

RECURSIVE StartOf(_, _)
\* where column i starts in a line whose columns are `widths` wide and two
\* spaces apart
StartOf(widths, i) ==
    IF i = 1 THEN 1 ELSE StartOf(widths, i - 1) + widths[i - 1] + 2

\* line holds `cells` left-aligned: cell i starts at its column's start, is
\* followed by spaces up to the column's width, and two spaces separate it
\* from the next column; nothing else is on the line.
Aligned(line, cells, widths) ==
    LET cols == Len(widths)
    IN  /\ Len(cells) = cols
        /\ Len(line) = StartOf(widths, cols) + widths[cols] - 1
        /\ \A i \in 1..cols :
              LET st == StartOf(widths, i)
              IN  /\ SubSeq(line, st, st + Len(cells[i]) - 1) = cells[i]
                  /\ \A k \in (st + Len(cells[i]))..(st + widths[i] - 1) :
                        SubSeq(line, k, k) = " "
                  /\ (i < cols) =>
                        (SubSeq(line, st + widths[i], st + widths[i] + 1) = "  ")

\* format_table has rendered a list that is not empty
TableMade ==
    /\ fn.stage = "out"
    /\ fn.f = "format_and_output"
    /\ fn.in.format = "Table"
    /\ Len(fn.in.items) > 0

----------------------------------------------------------------------------
(* Properties of Config::load and Config::default *)

\* C27: Config::load takes the profile name from the profile argument when
\* there is one, otherwise from RESEND_PROFILE when it is set, otherwise it
\* is "default"; the format is the one given, Table when none is given;
\* Config::default() has no api key, profile "default", format Table and
\* verbose false.
C27_ProfileAndFormatDefaults ==
    /\ Loaded =>
          /\ fn.in.profile.some => (fn.out.profile = fn.in.profile.v)
          /\ (~fn.in.profile.some /\ fn.in.env.RESEND_PROFILE.some)
                => (fn.out.profile = fn.in.env.RESEND_PROFILE.v)
          /\ (~fn.in.profile.some /\ ~fn.in.env.RESEND_PROFILE.some)
                => (fn.out.profile = "default")
          /\ fn.in.format.some => (fn.out.format = fn.in.format.v)
          /\ (~fn.in.format.some) => (fn.out.format = "Table")
    /\ (fn.stage = "out" /\ fn.f = "default") =>
          /\ fn.out.api_key = None
          /\ fn.out.profile = "default"
          /\ fn.out.format = "Table"
          /\ fn.out.verbose = FALSE

\* the argument names one profile and RESEND_PROFILE another: the argument
\* wins, and no format given means Table
C27_Witness ==
    /\ Loaded
    /\ fn.in.profile = Some("other")
    /\ fn.in.env.RESEND_PROFILE = Some("work")
    /\ fn.in.format = None
    /\ fn.out.profile = "other"
    /\ fn.out.format = "Table"

C27_WitnessDefault ==
    /\ fn.stage = "out"
    /\ fn.f = "default"
    /\ fn.out.profile = "default"

----------------------------------------------------------------------------
(* Properties of a config file that does not load *)

Listed == fn.stage = "out" /\ fn.f = "list_profiles"

\* fn.out is a Config and not an error
IsConfig(c) == DOMAIN c = {"api_key", "profile", "format", "output", "verbose"}

\* C29: a config file that is missing, unreadable or unparsable never makes
\* Config::load fail: load returns the Config of a store with no profiles,
\* its key the one of RESEND_API_KEY if set and absent otherwise.
\* list_profiles returns the read error for an unreadable file and the
\* parse error for an unparsable one, and the empty list exactly when the
\* file is missing or holds no profiles.
C29_LoadToleratesBadFile ==
    /\ Loaded =>
          /\ IsConfig(fn.out)
          /\ (fn.in.file.kind \in {"missing", "unreadable", "unparsable"}) =>
                /\ fn.out.api_key = fn.in.env.RESEND_API_KEY
                /\ fn.out.profile = SelectedProfile
    /\ Listed =>
          /\ (fn.in.kind = "unreadable") =>
                (fn.out = [ok |-> FALSE, context |-> "Failed to read config file"])
          /\ (fn.in.kind = "unparsable") =>
                (fn.out = [ok |-> FALSE, context |-> "Failed to parse config file"])
          /\ (fn.in.kind \in {"missing", "file"}) => fn.out.ok
          /\ (fn.out.ok /\ fn.out.v = {})
                <=> (fn.in.kind = "missing" \/ fn.in = FileOf({}))

\* load with an unparsable file and RESEND_API_KEY set returns a Config
\* holding the environment's key
C29_Witness ==
    /\ Loaded
    /\ fn.in.file = UnparsableFile
    /\ fn.in.env.RESEND_API_KEY = Some("re_env")
    /\ fn.out.api_key = Some("re_env")

\* list_profiles with an unparsable file returns the parse error
C29_WitnessList ==
    /\ Listed
    /\ fn.in.kind = "unparsable"
    /\ ~fn.out.ok

----------------------------------------------------------------------------
(* Properties of Config::set_profile *)

\* set_profile has returned Ok
ProfileSet == fn.stage = "out" /\ fn.f = "set_profile" /\ fn.out.ok

\* the profiles the config file held before the call
HeldBefore ==
    IF "profiles" \in DOMAIN fn.in.file THEN fn.in.file.profiles ELSE {}

\* the file maps the name to the key given, once
MapsNameToKey ==
    /\ fn.out.file.kind = "file"
    /\ {e \in fn.out.file.profiles : e.name = fn.in.name}
          = {ProfileEntry(fn.in.name, Some(fn.in.api_key))}

\* C28: after set_profile(p, k) succeeds the store maps p to k and every
\* other profile held before the call is still there with its key, for
\* every prior content of the config file.
C28_SetProfileKeepsOthers ==
    ProfileSet =>
        /\ MapsNameToKey
        /\ \A e \in HeldBefore : (e.name # fn.in.name) => (e \in fn.out.file.profiles)

\* What the code does keep: the profiles of a file that loads. When the
\* file does not load, the file written holds the new profile alone.
SetProfileKeepsLoaded ==
    ProfileSet =>
        /\ MapsNameToKey
        /\ (fn.in.file.kind = "file") =>
              (fn.out.file.profiles
                 = {e \in fn.in.file.profiles : e.name # fn.in.name}
                      \cup {ProfileEntry(fn.in.name, Some(fn.in.api_key))})
        /\ (fn.in.file.kind # "file") =>
              (fn.out.file.profiles = {ProfileEntry(fn.in.name, Some(fn.in.api_key))})

\* set_profile("default", ..) on a file that holds the profile work but no
\* longer parses: the file written holds default alone
C28_Witness ==
    /\ ProfileSet
    /\ fn.in.name = "default"
    /\ fn.in.file = UnparsableHolding({ProfileEntry("work", Some("re_work"))})
    /\ fn.out.file = FileOf({ProfileEntry("default", Some(fn.in.api_key))})

\* set_profile("staging", ..) on a file that loads keeps its two profiles
C28_WitnessKept ==
    /\ ProfileSet
    /\ fn.in.name = "staging"
    /\ fn.in.file.kind = "file"
    /\ Cardinality(fn.out.file.profiles) = 3

----------------------------------------------------------------------------
(* Properties of config setup *)

SetupRuns == proc.stage # "none" /\ proc.cmd.name = "setup"

SetupExited == SetupRuns /\ proc.stage = "exited"

\* test_connection, called with the key entered, has returned true
KeyConfirmed ==
    /\ proc.entered.some
    /\ proc.entered.v # ""
    /\ client.api_key = proc.entered.v
    /\ op.name = "test_connection"
    /\ req.authorization = "Bearer " \o proc.entered.v
    /\ sent = 1
    /\ result = [kind |-> "Ok", value |-> TRUE]

\* the store holds the key entered under the profile of the command
KeyStored ==
    /\ proc.store.kind = "file"
    /\ [name |-> proc.cmd.profile, api_key |-> proc.entered] \in proc.store.profiles

\* in every step of setup: the store changes only by taking the entered
\* key, and only once it is confirmed
WriteOnlyAfterConfirmed ==
    [][(SetupRuns /\ proc'.store # proc.store)
          => (KeyConfirmed /\ KeyConfirmed' /\ KeyStored' /\ proc'.exit = Some(0))]_vars

\* when the key is empty or test_connection returned an error the process
\* has exited with status 1 and the store is as it was found; a store that
\* differs from the one found holds the confirmed key
FailureLeavesStore ==
    /\ (SetupExited /\ proc.entered = Some("")) =>
          /\ proc.exit = Some(1)
          /\ proc.store = proc.before
          /\ calls = 0
    /\ (SetupExited /\ result # Pending /\ result.kind # "Ok") =>
          /\ proc.exit = Some(1)
          /\ proc.store = proc.before
    /\ (SetupRuns /\ proc.store # proc.before) => (KeyConfirmed /\ KeyStored)
    /\ (SetupRuns /\ proc.stage # "exited") => (proc.store = proc.before)

\* C21: the setup flow writes a key to the profile store only after that
\* key was entered non-empty and test_connection with it succeeded; when
\* the key is empty or test_connection returns any error, the process exits
\* with status 1 and the stored profiles are left exactly as they were.
C21_SetupPersistsOnlyConfirmedKey == WriteOnlyAfterConfirmed /\ []FailureLeavesStore

\* a key was entered, test_connection answered 401, setup exited with
\* status 1 and the two stored profiles are untouched
C21_Witness ==
    /\ SetupExited
    /\ proc.entered = Some("re_abc")
    /\ result.kind = "AuthenticationError"
    /\ proc.exit = Some(1)
    /\ proc.store = proc.before
    /\ proc.store.kind = "file"

\* the key was confirmed and is stored under the profile, next to the
\* profile that was there
C21_WitnessStored ==
    /\ SetupExited
    /\ proc.cmd.profile = "default"
    /\ KeyConfirmed
    /\ proc.exit = Some(0)
    /\ proc.store
          = FileOf({ProfileEntry("default", Some("re_123456789")),
                    ProfileEntry("work", Some("re_work"))})

\* the empty key: no request was made
C21_WitnessEmpty ==
    /\ SetupExited
    /\ proc.entered = Some("")
    /\ proc.exit = Some(1)
    /\ calls = 0

----------------------------------------------------------------------------
(* Properties of what the commands write about the key *)

\* key occurs in str
Contains(str, key) ==
    \E i \in 1..(Len(str) - Len(key) + 1) : SubSeq(str, i, i + Len(key) - 1) = key

\* key occurs in a piece of the text `tokens`
Reveals(tokens, key) ==
    \E i \in 1..Len(tokens) : tokens[i].k # "num" /\ Contains(tokens[i].s, key)

\* The keys the process is configured with: the key of its Config, the key
\* of its client, the key entered at the prompt and the keys of the profile
\* store. An empty key has nothing to reveal.
ConfiguredKeys ==
    ( (IF "api_key" \in DOMAIN proc.config /\ proc.config.api_key.some
       THEN {proc.config.api_key.v} ELSE {})
      \cup {client.api_key}
      \cup (IF "entered" \in DOMAIN proc /\ proc.entered.some
            THEN {proc.entered.v} ELSE {})
      \cup (IF "store" \in DOMAIN proc /\ "profiles" \in DOMAIN proc.store
            THEN {e.api_key.v : e \in {x \in proc.store.profiles : x.api_key.some}}
            ELSE {}) )
    \ {""}

\* the lines written so far on standard output and standard error
LinesWritten == Range(proc.stdout) \cup Range(proc.stderr)

ShowExited == proc.stage = "exited" /\ proc.cmd.name = "show"

C24_WitnessError ==
    /\ proc.stage = "exited"
    /\ proc.cmd.name = "setup"
    /\ proc.entered = Some("re_123456789")
    /\ result.kind = "AuthenticationError"
    /\ Len(proc.stderr) = 1

====
